---- MODULE Spec2Model ----
(***************************************************************************)
(* The memory-layout engine of webgpu-computed (src/src/utils/WGSL_Fun.ts, *)
(* the current GpuComputed class, and src/src/utils/GpuComputed.ts, the    *)
(* legacy one): type inference from example data, layout planning, flat    *)
(* buffer building and result demapping.                                   *)
(*                                                                         *)
(* Sizes, offsets and strides count 32-bit elements, as in the source.     *)
(***************************************************************************)
EXTENDS Integers, Sequences, FiniteSets, TLC

VARIABLES
    inferred,   \* the last buildBufferTypeByData call: its data and what it returned or threw
    template,   \* this.template of the GpuComputed instance, for its one slot
    built,      \* the last buffer build of createBindGroup: the slot's data and its array
    mapped,     \* the last dataMap call: its flat array and key and what it returned or threw
    legacy      \* the last call of the legacy buildBuffer: its data and what it returned or threw

\* the device layer and the instance's life cycle
VARIABLES
    env,        \* where the module runs: what navigator.gpu and the webgpu shim offer
    adapter,    \* the module-level let adapter of WGSL_Fun.ts: 0 is null
    device,     \* the module-level let device of WGSL_Fun.ts: 0 is null, else a device's number
    gpu,        \* the WebGPU objects: devices requested, devices destroyed, buffers created,
                \* createBindGroup calls that reached a device
    call,       \* the asynchronous calls in flight, and how the last call of the device
                \* layer ended
    self,       \* the GpuComputed instance: template, device, code, groupLayout, pipeline
    group,      \* what the last createBindGroup call returned or threw
    run,        \* the last computed call on that group, or before any: its synchronize,
                \* staging buffers and results, and the last dataMap of a result
    old         \* the legacy module: its adapter and device, and its last computed call

layoutVars == <<inferred, template, built, mapped, legacy>>
pipelineVars == <<env, adapter, device, gpu, call, self, group, run, old>>
vars == <<inferred, template, built, mapped, legacy,
          env, adapter, device, gpu, call, self, group, run, old>>

---------------------------------------------------------------------------
(* Bounds of the model *)

\* longest field list of a layout or of an example record
MaxFields == 2
\* most records in one struct-array slot value
MaxRecords == 2
\* most slots of an instance's template
MaxSlots == 2
\* most devices requested in one behaviour
MaxDevices == 2
\* most createBindGroup calls in one behaviour
MaxGroups == 2

---------------------------------------------------------------------------
(* JavaScript values.  A scalar is [t, n]; an array is [t |-> "array",     *)
(* elems]; an object is [t |-> "object", entries], its entries [k, v] in   *)
(* insertion order (the order Object.keys returns).                         *)

Num(n) == [t |-> "number", n |-> n]
NaN == [t |-> "NaN", n |-> 0]
Undefined == [t |-> "undefined", n |-> 0]
Null == [t |-> "null", n |-> 0]
\* a string that reads as the number n, such as "7"
NumStr(n) == [t |-> "numstr", n |-> n]
\* a string that reads as no number, such as "abc"
BadStr == [t |-> "badstr", n |-> 0]
Arr(elems) == [t |-> "array", elems |-> elems]
Obj(entries) == [t |-> "object", entries |-> entries]

isArray(v) == v.t = "array"

\* typeof v === "number" (NaN is a number to typeof)
isNumberType(v) == v.t \in {"number", "NaN"}

\* Number(v) for a scalar v
ToNumber(v) ==
    CASE v.t = "number" -> v
      [] v.t = "NaN" -> NaN
      [] v.t = "null" -> Num(0)
      [] v.t = "undefined" -> NaN
      [] v.t = "numstr" -> Num(v.n)
      [] v.t = "badstr" -> NaN

\* a ?? b
Coalesce(a, b) == IF a.t \in {"undefined", "null"} THEN b ELSE a

\* arr[i] for a zero-based index i of a JavaScript array
Index(elems, i) == IF i >= 0 /\ i < Len(elems) THEN elems[i + 1] ELSE Undefined

\* typeof v
typeofJs(v) ==
    CASE v.t \in {"number", "NaN"} -> "number"
      [] v.t \in {"numstr", "badstr"} -> "string"
      [] v.t = "undefined" -> "undefined"
      [] v.t \in {"null", "array", "object"} -> "object"

\* Object.keys(obj)
Keys(obj) == [i \in 1..Len(obj.entries) |-> obj.entries[i].k]

\* key in obj
HasKey(obj, k) == \E i \in 1..Len(obj.entries) : obj.entries[i].k = k

\* obj[k]
Get(obj, k) ==
    IF HasKey(obj, k)
    THEN obj.entries[CHOOSE i \in 1..Len(obj.entries) : obj.entries[i].k = k].v
    ELSE Undefined

\* obj[k] = v: a new key goes last, an existing key keeps its place
Put(obj, k, v) ==
    IF HasKey(obj, k)
    THEN Obj([i \in 1..Len(obj.entries) |->
                IF obj.entries[i].k = k THEN [k |-> k, v |-> v] ELSE obj.entries[i]])
    ELSE Obj(Append(obj.entries, [k |-> k, v |-> v]))

\* arr.slice(from, to) for zero-based 0 <= from <= to
Slice(elems, from, to) ==
    LET hi == IF to < Len(elems) THEN to ELSE Len(elems)
    IN  IF from >= hi THEN <<>> ELSE [i \in 1..(hi - from) |-> elems[from + i]]

\* new Array(n).fill(v)
Filled(n, v) == [j \in 1..n |-> v]

---------------------------------------------------------------------------
(* The type table *)

wgslTypes == <<"f32", "vec2", "vec3", "vec4", "mat3x3", "mat4x4">>

TYPE_SIZE(type) ==
    CASE type = "f32" -> 1
      [] type = "vec2" -> 2
      [] type = "vec3" -> 3
      [] type = "vec4" -> 4
      [] type = "mat3x3" -> 12
      [] type = "mat4x4" -> 16

TYPE_ALIGN(type) ==
    CASE type = "f32" -> 1
      [] type = "vec2" -> 2
      [] type = "vec3" -> 4
      [] type = "vec4" -> 4
      [] type = "mat3x3" -> 4
      [] type = "mat4x4" -> 4

isWgslType(type) == \E i \in 1..Len(wgslTypes) : wgslTypes[i] = type

Max(a, b) == IF a > b THEN a ELSE b

---------------------------------------------------------------------------
(* Template values.  form "array" is a JavaScript array: the empty one is  *)
(* a bare numeric slot, a non-empty one an IStruct; form "object" is an    *)
(* IStructArray {layout, stride}.                                           *)

NoTemplate == [form |-> "none", layout |-> <<>>, stride |-> Undefined]
RawTemplate == [form |-> "array", layout |-> <<>>, stride |-> Undefined]
StructTemplate(fields) == [form |-> "array", layout |-> fields, stride |-> Undefined]
StructArrayTemplate(fields, stride) == [form |-> "object", layout |-> fields, stride |-> stride]

isStructLayout(s) ==
    /\ Len(s) > 0
    /\ \A i \in 1..Len(s) : isWgslType(s[i].type)

isStruct(tem) == tem.form = "array" /\ isStructLayout(tem.layout)

isStructArray(tem) == tem.form = "object" /\ isStructLayout(tem.layout)

\* padding as a planner that adds the remainder instead of the complement
paddingRemainder(offset, type) == offset % TYPE_ALIGN(type)

padding(offset, type) ==
    LET alignment == TYPE_ALIGN(type)
    IN  (alignment - (offset % alignment)) % alignment

\* roundUp as a rounding that steps to the next multiple even from a multiple
roundUpNext(offset, align) == offset + (align - (offset % align))

roundUp(offset, align) == offset + ((align - (offset % align)) % align)

---------------------------------------------------------------------------
(* Type inference and the by-example planner: buildStructTypeByData *)

NoError == [name |-> "none", key |-> "", length |-> 0]
\* `${k} 不支持的数组长度 ${v.length}`
UnsupportedLength(k, n) == [name |-> "unsupportedArrayLength", key |-> k, length |-> n]
\* `${k} 不支持的类型`
UnsupportedType(k) == [name |-> "unsupportedType", key |-> k, length |-> 0]

\* the types the inference loop tries, in its order
inferCandidates == <<"vec2", "vec3", "vec4", "mat3x3", "mat4x4">>

\* inferType as a loop that takes the first type with room for the array
inferTypeAtLeast(k, v) ==
    IF isArray(v)
    THEN LET hits == {i \in 1..Len(inferCandidates) :
                        TYPE_SIZE(inferCandidates[i]) >= Len(v.elems)}
         IN  IF hits # {}
             THEN [threw |-> FALSE, error |-> NoError,
                   type |-> inferCandidates[CHOOSE i \in hits : \A j \in hits : i <= j]]
             ELSE [threw |-> TRUE, error |-> UnsupportedLength(k, Len(v.elems)),
                   type |-> ""]
    ELSE IF typeofJs(v) = "number"
         THEN [threw |-> FALSE, error |-> NoError, type |-> "f32"]
         ELSE [threw |-> TRUE, error |-> UnsupportedType(k), type |-> ""]

\* the callback of keys.map: the type of the example value v of key k
inferType(k, v) ==
    IF isArray(v)
    THEN LET hits == {i \in 1..Len(inferCandidates) :
                        TYPE_SIZE(inferCandidates[i]) = Len(v.elems)}
         IN  IF hits # {}
             THEN [threw |-> FALSE, error |-> NoError,
                   type |-> inferCandidates[CHOOSE i \in hits : \A j \in hits : i <= j]]
             ELSE [threw |-> TRUE, error |-> UnsupportedLength(k, Len(v.elems)),
                   type |-> ""]
    ELSE IF typeofJs(v) = "number"
         THEN [threw |-> FALSE, error |-> NoError, type |-> "f32"]
         ELSE [threw |-> TRUE, error |-> UnsupportedType(k), type |-> ""]

\* keys.map with the running offset: the layout of fields i.. and the
\* offset after the last one
RECURSIVE byDataLayout(_, _, _, _)
byDataLayout(keys, types, i, offset) ==
    IF i > Len(keys)
    THEN [layout |-> <<>>, offset |-> offset]
    ELSE LET type == types[i]
             at == offset + padding(offset, type)
             rest == byDataLayout(keys, types, i + 1, at + TYPE_SIZE(type))
         IN  [layout |-> <<[name |-> keys[i], type |-> type, offset |-> at,
                            size |-> TYPE_SIZE(type)]>> \o rest.layout,
              offset |-> rest.offset]

\* Math.max(...types.map(t => TYPE_ALIGN[t])) of a non-empty list
RECURSIVE maxAlignOf(_, _)
maxAlignOf(types, i) ==
    IF i = Len(types)
    THEN TYPE_ALIGN(types[i])
    ELSE Max(TYPE_ALIGN(types[i]), maxAlignOf(types, i + 1))

\* offset + ((structAlign - (offset % structAlign)) % structAlign), where
\* structAlign is -Infinity for an empty type list and the result NaN
byDataStride(types, offset) ==
    IF Len(types) = 0
    THEN NaN
    ELSE LET structAlign == maxAlignOf(types, 1)
         IN  Num(offset + ((structAlign - (offset % structAlign)) % structAlign))

\* buildStructTypeByData(data) for an object data: {stride, layout}, or the
\* error of the first key whose value has no type
buildStructTypeByData(obj) ==
    LET keys == Keys(obj)
        inf == [i \in 1..Len(keys) |-> inferType(keys[i], Get(obj, keys[i]))]
        bad == {i \in 1..Len(keys) : inf[i].threw}
    IN  IF bad # {}
        THEN [threw |-> TRUE,
              error |-> inf[CHOOSE i \in bad : \A j \in bad : i <= j].error,
              stride |-> Undefined, layout |-> <<>>]
        ELSE LET types == [i \in 1..Len(keys) |-> inf[i].type]
                 plan == byDataLayout(keys, types, 1, 0)
             IN  [threw |-> FALSE, error |-> NoError,
                  stride |-> byDataStride(types, plan.offset),
                  layout |-> plan.layout]

---------------------------------------------------------------------------
(* The explicit planner: the constructor's improveTemplateOption *)

\* improveStructFrom as a loop that advances the offset by the field's
\* alignment instead of its size
RECURSIVE improveStructFromByAlign(_, _, _)
improveStructFromByAlign(struct, i, offset) ==
    IF i > Len(struct)
    THEN <<>>
    ELSE LET item == struct[i]
             at == offset + padding(offset, item.type)
         IN  <<[name |-> item.name, type |-> item.type, offset |-> at,
                size |-> TYPE_SIZE(item.type)]>>
             \o improveStructFromByAlign(struct, i + 1, at + TYPE_ALIGN(item.type))

\* struct.forEach with the running offset
RECURSIVE improveStructFrom(_, _, _)
improveStructFrom(struct, i, offset) ==
    IF i > Len(struct)
    THEN <<>>
    ELSE LET item == struct[i]
             at == offset + padding(offset, item.type)
         IN  <<[name |-> item.name, type |-> item.type, offset |-> at,
                size |-> TYPE_SIZE(item.type)]>>
             \o improveStructFrom(struct, i + 1, at + TYPE_SIZE(item.type))

\* improveStruct as a planner that places the fields by falling alignment
improveStructSorted(struct) ==
    improveStructFrom(
        SelectSeq(struct, LAMBDA item : TYPE_ALIGN(item.type) = 4)
            \o SelectSeq(struct, LAMBDA item : TYPE_ALIGN(item.type) = 2)
            \o SelectSeq(struct, LAMBDA item : TYPE_ALIGN(item.type) = 1),
        1, 0)

improveStruct(struct) == improveStructFrom(struct, 1, 0)

\* let maxAlign = 1; for (const item of layout) maxAlign = Math.max(...)
RECURSIVE maxAlignFrom(_, _, _)
maxAlignFrom(layout, i, maxAlign) ==
    IF i > Len(layout)
    THEN maxAlign
    ELSE maxAlignFrom(layout, i + 1, Max(maxAlign, TYPE_ALIGN(layout[i].type)))

\* improveStructArray as a planner that takes the packed end for the stride
improveStructArrayPacked(structArr) ==
    LET layout == improveStruct(structArr.layout)
        last == layout[Len(layout)]
    IN  [structArr EXCEPT !.layout = layout, !.stride = Num(last.offset + last.size)]

improveStructArray(structArr) ==
    LET layout == improveStruct(structArr.layout)
        last == layout[Len(layout)]
        stride == last.offset + last.size
    IN  [structArr EXCEPT !.layout = layout,
                          !.stride = Num(roundUp(stride, maxAlignFrom(layout, 1, 1)))]

\* the single slot's share of improveTemplateOption
improveTemplateOption(tem) ==
    IF isStruct(tem) THEN [tem EXCEPT !.layout = improveStruct(tem.layout)]
    ELSE IF isStructArray(tem) THEN improveStructArray(tem)
    ELSE tem

\* buildBufferTypeByData for the one slot of data: the slot's template
\* (hasKey), no template for it (a logged, skipped slot), or the error thrown
buildBufferTypeByData(value) ==
    IF isArray(value)
    THEN IF typeofJs(Index(value.elems, 0)) = "number"
         THEN [threw |-> FALSE, error |-> NoError, hasKey |-> TRUE, tem |-> RawTemplate]
         ELSE IF typeofJs(Index(value.elems, 0)) = "object" \/ Len(value.elems) > 0
         THEN LET buffer == buildStructTypeByData(value.elems[1])
              IN  IF buffer.threw
                  THEN [threw |-> TRUE, error |-> buffer.error, hasKey |-> FALSE,
                        tem |-> NoTemplate]
                  ELSE [threw |-> FALSE, error |-> NoError, hasKey |-> TRUE,
                        tem |-> StructArrayTemplate(buffer.layout, buffer.stride)]
         ELSE [threw |-> FALSE, error |-> NoError, hasKey |-> FALSE, tem |-> NoTemplate]
    ELSE IF typeofJs(value) = "object"
    THEN LET buffer == buildStructTypeByData(value)
         IN  IF buffer.threw
             THEN [threw |-> TRUE, error |-> buffer.error, hasKey |-> FALSE,
                   tem |-> NoTemplate]
             ELSE [threw |-> FALSE, error |-> NoError, hasKey |-> TRUE,
                   tem |-> StructTemplate(buffer.layout)]
    ELSE [threw |-> FALSE, error |-> NoError, hasKey |-> FALSE, tem |-> NoTemplate]

---------------------------------------------------------------------------
(* The buffer builder: the slot's array in createBindGroup *)

\* writeItem as a loop that writes Number(value[i]) with no default
writeItemNoDefault(buf, at, size, elems) ==
    [j \in 1..Max(Len(buf), at + size) |->
        IF j > at /\ j <= at + size
        THEN ToNumber(Index(elems, j - 1 - at))
        ELSE IF j <= Len(buf) THEN buf[j] ELSE Undefined]

\* for (let i = 0; i < item.size; i++) data[offset + item.offset + i] = Number(value[i] ?? 0)
\* with at = offset + item.offset; a write past the end grows the array and
\* leaves the places it skips unset
writeItem(buf, at, size, elems) ==
    [j \in 1..Max(Len(buf), at + size) |->
        IF j > at /\ j <= at + size
        THEN ToNumber(Coalesce(Index(elems, j - 1 - at), Num(0)))
        ELSE IF j <= Len(buf) THEN buf[j] ELSE Undefined]

\* buildStructInto as a loop that leaves a value that is no array unwrapped
RECURSIVE buildStructIntoBare(_, _, _, _, _)
buildStructIntoBare(valueObj, tem, offset, buf, k) ==
    IF k > Len(tem)
    THEN buf
    ELSE LET item == tem[k]
             value == Get(valueObj, item.name)
             elems == IF isArray(value) THEN value.elems ELSE <<>>
         IN  buildStructIntoBare(valueObj, tem, offset,
                                 writeItem(buf, offset + item.offset, item.size, elems),
                                 k + 1)

\* tem.forEach(item => ...) from item k on
RECURSIVE buildStructInto(_, _, _, _, _)
buildStructInto(valueObj, tem, offset, buf, k) ==
    IF k > Len(tem)
    THEN buf
    ELSE LET item == tem[k]
             value == Get(valueObj, item.name)
             elems == IF isArray(value) THEN value.elems ELSE <<value>>
         IN  buildStructInto(valueObj, tem, offset,
                             writeItem(buf, offset + item.offset, item.size, elems),
                             k + 1)

\* buildStruct(valueObj, tem) without data: a zero-filled array of the
\* struct's rounded size, then the fields
buildStruct(valueObj, tem) ==
    LET last == tem[Len(tem)]
        stride == last.offset + last.size
        buf == Filled(roundUp(stride, maxAlignFrom(tem, 1, 1)), Num(0))
    IN  buildStructInto(valueObj, tem, 0, buf, 1)

\* buildStructArrayFrom as a loop whose record base is one stride too far
RECURSIVE buildStructArrayFromNext(_, _, _, _)
buildStructArrayFromNext(values, tem, buf, i) ==
    IF i >= Len(values)
    THEN buf
    ELSE buildStructArrayFromNext(values, tem,
            buildStructInto(values[i + 1], tem.layout, (i + 1) * tem.stride.n, buf, 1),
            i + 1)

\* values.forEach((value, i) => buildStruct(value, tem.layout, i * stride, data))
RECURSIVE buildStructArrayFrom(_, _, _, _)
buildStructArrayFrom(values, tem, buf, i) ==
    IF i >= Len(values)
    THEN buf
    ELSE buildStructArrayFrom(values, tem,
            buildStructInto(values[i + 1], tem.layout, i * tem.stride.n, buf, 1),
            i + 1)

\* buildStructArray on an array that is not zero-filled
buildStructArrayUnfilled(values, tem) ==
    buildStructArrayFrom(values, tem, Filled(tem.stride.n * Len(values), Num(1)), 0)

buildStructArray(values, tem) ==
    buildStructArrayFrom(values, tem, Filled(tem.stride.n * Len(values), Num(0)), 0)

\* the array createBindGroup fills for the slot from data[name]
slotArray(tem, value) ==
    IF isStruct(tem) THEN buildStruct(value, tem.layout)
    ELSE IF isStructArray(tem) THEN buildStructArray(value.elems, tem)
    ELSE IF isArray(value) THEN value.elems
    ELSE <<>>

---------------------------------------------------------------------------
(* The result demapper: dataMap *)

\* demapRecord as a loop that never unwraps a one-element slice
RECURSIVE demapRecordKeepArray(_, _, _, _, _)
demapRecordKeepArray(arr, layout, base, obj, k) ==
    IF k > Len(layout)
    THEN obj
    ELSE LET item == layout[k]
             slice == Slice(arr, base + item.offset, base + item.offset + item.size)
         IN  demapRecordKeepArray(arr, layout, base,
                                  Put(obj, item.name, Arr(slice)), k + 1)

\* obj[item.name] = data.length === 1 ? data[0] : data, for the items k.. of a layout
RECURSIVE demapRecord(_, _, _, _, _)
demapRecord(arr, layout, base, obj, k) ==
    IF k > Len(layout)
    THEN obj
    ELSE LET item == layout[k]
             slice == Slice(arr, base + item.offset, base + item.offset + item.size)
         IN  demapRecord(arr, layout, base,
                         Put(obj, item.name, IF Len(slice) = 1 THEN slice[1] ELSE Arr(slice)),
                         k + 1)

\* for (let i = 0; i < count; i++) with count = array.length / stride
RECURSIVE demapList(_, _, _, _)
demapList(arr, tems, list, i) ==
    IF i * tems.stride.n >= Len(arr)
    THEN list
    ELSE demapList(arr, tems,
                   Append(list, demapRecord(arr, tems.layout, i * tems.stride.n, Obj(<<>>), 1)),
                   i + 1)

dataMap(arr, tem) ==
    IF isStructArray(tem) THEN Arr(demapList(arr, tem, <<>>, 0))
    ELSE IF isStruct(tem) THEN demapRecord(arr, tem.layout, 0, Obj(<<>>), 1)
    ELSE Arr(arr)

---------------------------------------------------------------------------
(* The legacy engine: GpuComputed.buildBuffer of src/src/utils/GpuComputed.ts, *)
(* with its own copies of the tables and of the padding function.              *)

legacyTYPE_SIZE(type) ==
    CASE type = "f32" -> 1
      [] type = "vec2" -> 2
      [] type = "vec3" -> 3
      [] type = "vec4" -> 4
      [] type = "mat3x3" -> 12
      [] type = "mat4x4" -> 16

TYPE_ALIGN_SIZE(type) ==
    CASE type = "f32" -> 1
      [] type = "vec2" -> 2
      [] type = "vec3" -> 4
      [] type = "vec4" -> 4
      [] type = "mat3x3" -> 4
      [] type = "mat4x4" -> 4

align(offset, type) ==
    LET alignment == TYPE_ALIGN_SIZE(type)
    IN  (alignment - (offset % alignment)) % alignment

\* "数据必须是非空数组"
EmptyData == [name |-> "emptyData", key |-> "", length |-> 0]
\* RangeError of new Array(NaN)
InvalidArrayLength == [name |-> "invalidArrayLength", key |-> "", length |-> 0]

legacyInferType(k, v) ==
    IF isArray(v)
    THEN LET hits == {i \in 1..Len(inferCandidates) :
                        legacyTYPE_SIZE(inferCandidates[i]) = Len(v.elems)}
         IN  IF hits # {}
             THEN [threw |-> FALSE, error |-> NoError,
                   type |-> inferCandidates[CHOOSE i \in hits : \A j \in hits : i <= j]]
             ELSE [threw |-> TRUE, error |-> UnsupportedLength(k, Len(v.elems)),
                   type |-> ""]
    ELSE IF typeofJs(v) = "number"
         THEN [threw |-> FALSE, error |-> NoError, type |-> "f32"]
         ELSE [threw |-> TRUE, error |-> UnsupportedType(k), type |-> ""]

RECURSIVE legacyLayout(_, _, _, _)
legacyLayout(keys, types, i, offset) ==
    IF i > Len(keys)
    THEN [layout |-> <<>>, offset |-> offset]
    ELSE LET type == types[i]
             at == offset + align(offset, type)
             rest == legacyLayout(keys, types, i + 1, at + legacyTYPE_SIZE(type))
         IN  [layout |-> <<[name |-> keys[i], type |-> type, offset |-> at,
                            size |-> legacyTYPE_SIZE(type)]>> \o rest.layout,
              offset |-> rest.offset]

RECURSIVE legacyMaxAlign(_, _)
legacyMaxAlign(types, i) ==
    IF i = Len(types)
    THEN TYPE_ALIGN_SIZE(types[i])
    ELSE Max(TYPE_ALIGN_SIZE(types[i]), legacyMaxAlign(types, i + 1))

legacyStride(types, offset) ==
    IF Len(types) = 0
    THEN NaN
    ELSE LET structAlign == legacyMaxAlign(types, 1)
         IN  Num(offset + ((structAlign - (offset % structAlign)) % structAlign))

\* layout.forEach(({name, offset, size}) => ...) for one record, from field k on
RECURSIVE legacyWriteRecord(_, _, _, _, _)
legacyWriteRecord(item, layout, base, buf, k) ==
    IF k > Len(layout)
    THEN buf
    ELSE LET f == layout[k]
             v == Get(item, f.name)
             elems == IF isArray(v) THEN v.elems ELSE <<v>>
         IN  legacyWriteRecord(item, layout, base,
                               writeItem(buf, base + f.offset, f.size, elems), k + 1)

\* data.forEach((item, idx) => ...)
RECURSIVE legacyWriteAll(_, _, _, _, _)
legacyWriteAll(records, layout, stride, buf, idx) ==
    IF idx >= Len(records)
    THEN buf
    ELSE legacyWriteAll(records, layout, stride,
                        legacyWriteRecord(records[idx + 1], layout, idx * stride, buf, 1),
                        idx + 1)

LegacyThrow(e) ==
    [threw |-> TRUE, error |-> e, buffer |-> <<>>, stride |-> Undefined,
     layout |-> <<>>, count |-> 0]

\* buildBuffer(data) with keys and types left to inference
buildBuffer(value) ==
    IF ~isArray(value) \/ Len(value.elems) = 0
    THEN LegacyThrow(EmptyData)
    ELSE LET records == value.elems
             keys == Keys(records[1])
             inf == [i \in 1..Len(keys) |-> legacyInferType(keys[i], Get(records[1], keys[i]))]
             bad == {i \in 1..Len(keys) : inf[i].threw}
         IN  IF bad # {}
             THEN LegacyThrow(inf[CHOOSE i \in bad : \A j \in bad : i <= j].error)
             ELSE LET types == [i \in 1..Len(keys) |-> inf[i].type]
                      plan == legacyLayout(keys, types, 1, 0)
                      stride == legacyStride(types, plan.offset)
                  IN  IF stride.t = "NaN"
                      THEN LegacyThrow(InvalidArrayLength)
                      ELSE [threw |-> FALSE, error |-> NoError,
                            buffer |-> legacyWriteAll(records, plan.layout, stride.n,
                                           Filled(stride.n * Len(records), Num(0)), 0),
                            stride |-> stride, layout |-> plan.layout,
                            count |-> Len(records)]

---------------------------------------------------------------------------
(* The shader text: the code initPipeline assembles.  A text is the list of *)
(* the pieces its template literals put together, in their order.           *)

\* str[0].toUpperCase() + str.slice(1), for the slot names in use
capitalize(str) ==
    CASE str = "" -> ""
      [] str = "input" -> "Input"
      [] str = "output" -> "Output"
      [] str = "extra" -> "Extra"
      [] str = "more" -> "More"
      [] OTHER -> str

\* parts.join(sep) of a list of pieces
RECURSIVE join(_, _)
join(parts, sep) ==
    IF Len(parts) = 0 THEN <<>>
    ELSE IF Len(parts) = 1 THEN parts[1]
    ELSE parts[1] \o <<sep>> \o join(Tail(parts), sep)

\* parts.join('')
RECURSIVE concat(_)
concat(parts) == IF Len(parts) = 0 THEN <<>> ELSE parts[1] \o concat(Tail(parts))

\* memberCode as an emitter that writes every member's type bare
memberCodeBare(item) == <<item.name, ":", item.type>>

\* `${item.name}:${item.type === 'f32' ? 'f32' : item.type + '<f32>'}`
memberCode(item) ==
    <<item.name, ":", IF item.type = "f32" THEN "f32" ELSE item.type \o "<f32>">>

\* `struct ${structName} {${code}};` for the fields of a struct or struct array slot
structCode(name, layout) ==
    <<"struct ", capitalize(name) \o "Struct", " {">>
        \o join([i \in 1..Len(layout) |-> memberCode(layout[i])], ",")
        \o <<"};">>

\* groupCode as an emitter that declares every structured slot as an array
groupCodeArray(name, index, tem) ==
    <<"@group(0) @binding(", ToString(index), ") var<storage, read_write> ", name, ": ",
      IF isStruct(tem) \/ isStructArray(tem) THEN "array<" \o capitalize(name) \o "Struct" \o ">"
      ELSE "array<f32>",
      ";">>

\* `@group(0) @binding(${index}) var<storage, read_write> ${name}: ${type};`
groupCode(name, index, tem) ==
    <<"@group(0) @binding(", ToString(index), ") var<storage, read_write> ", name, ": ",
      IF isStruct(tem) THEN capitalize(name) \o "Struct"
      ELSE IF isStructArray(tem) THEN "array<" \o capitalize(name) \o "Struct" \o ">"
      ELSE "array<f32>",
      ";">>

\* the entry groupLayoutOption.push(...) adds for the slot at index
groupLayoutEntry(index) ==
    [binding |-> index, visibility |-> "COMPUTE", buffer |-> "storage"]

\* structCodes of a template (a list of slots [name, tem] in key order)
structCodes(slots) ==
    concat([i \in 1..Len(slots) |->
              IF isStruct(slots[i].tem) \/ isStructArray(slots[i].tem)
              THEN <<structCode(slots[i].name, slots[i].tem.layout)>>
              ELSE <<>>])

\* groupCodes of a template: the slot at position i of the keys has index i - 1
groupCodes(slots) ==
    [i \in 1..Len(slots) |-> groupCode(slots[i].name, i - 1, slots[i].tem)]

\* the option of an instance, or of the legacy computed, that names nothing
NoOption == [beforeCodes |-> Undefined, code |-> Undefined]

\* a string of the option
Text(s) == [t |-> "string", s |-> s]

\* const {beforeCodes = [], code = ''} = this.option ?? {}
OrDefault(v, d) == IF v = Undefined THEN d ELSE v

\* beforeCodes.join(' '): the snippets in their order
beforeCode(beforeCodes) ==
    IF Len(beforeCodes) = 0
    THEN <<"">>
    ELSE join([i \in 1..Len(beforeCodes) |-> <<beforeCodes[i]>>], " ")

\* completeCode as a text with the snippets before the declarations
completeCodePreludeFirst(slots, option) ==
    beforeCode(OrDefault(option.beforeCodes, Arr(<<>>)).elems)
        \o concat(structCodes(slots)) \o <<"\n">> \o concat(groupCodes(slots))
        \o <<"@compute @workgroup_size(", "32,1,1", ") fn main(@builtin(global_invocation_id) ",
             "grid", ": vec3<u32>) { var ", "index", " = ", "grid", ".x; ",
             OrDefault(option.code, Text("")).s, " }">>

\* completeCode for the option's beforeCodes and code, with workgroupSize
\* [32, 1, 1] and the names grid and index
completeCode(slots, option) ==
    concat(structCodes(slots)) \o <<"\n">> \o concat(groupCodes(slots))
        \o beforeCode(OrDefault(option.beforeCodes, Arr(<<>>)).elems)
        \o <<"@compute @workgroup_size(", "32,1,1", ") fn main(@builtin(global_invocation_id) ",
             "grid", ": vec3<u32>) { var ", "index", " = ", "grid", ".x; ",
             OrDefault(option.code, Text("")).s, " }">>

---------------------------------------------------------------------------
(* The bind group: createBindGroup and the buffers it creates *)

\* Float32ArrayOf as a conversion that pads the numbers with zeros to a
\* whole number of four-element rows
Float32ArrayOfAligned(array) ==
    [j \in 1..(Len(array) + ((4 - (Len(array) % 4)) % 4)) |->
        IF j <= Len(array) THEN ToNumber(array[j]) ELSE Num(0)]

\* new Float32Array(array): each element Number(...), an unset place NaN.
\* The numbers of the model are small integers, which a 32-bit float holds
\* exactly.
Float32ArrayOf(array) == [j \in 1..Len(array) |-> ToNumber(array[j])]

\* "创建buffer组错误，未找到可用的gpu设备，请确保初始化完计算管线"
NoDevice == [name |-> "noDevice", key |-> "", length |-> 0]
\* `传入的数据中，不存在${name}字段`
MissingSlotOf(name) == [name |-> "missingSlot", key |-> name, length |-> 0]

\* device.createBuffer({size, usage}) and device.queue.writeBuffer(buffer, 0, data):
\* the buffer with number id on the device dev
createBuffer(id, dev, data, usage) ==
    [id |-> id, device |-> dev, size |-> 4 * Len(data), data |-> data, usage |-> usage]

\* bindSlots as a loop that skips a slot the data lacks
RECURSIVE bindSlotsSkipping(_, _, _, _, _, _)
bindSlotsSkipping(slots, data, dev, made, i, buffers) ==
    IF i > Len(slots)
    THEN [threw |-> FALSE, error |-> NoError, buffers |-> buffers]
    ELSE IF ~HasKey(data, slots[i].name)
    THEN bindSlotsSkipping(slots, data, dev, made, i + 1, buffers)
    ELSE LET array == slotArray(slots[i].tem, Get(data, slots[i].name))
             buffer == createBuffer(made + Len(buffers) + 1, dev,
                                    Float32ArrayOf(array), "STORAGE")
         IN  bindSlotsSkipping(slots, data, dev, made, i + 1,
                               Append(buffers, [name |-> slots[i].name, buffer |-> buffer]))

\* Object.keys(template).forEach((name) => ...) from slot i on: made is the
\* number of buffers created before the call; a slot the data lacks throws,
\* after the buffers of the slots before it were created
RECURSIVE bindSlots(_, _, _, _, _, _)
bindSlots(slots, data, dev, made, i, buffers) ==
    IF i > Len(slots)
    THEN [threw |-> FALSE, error |-> NoError, buffers |-> buffers]
    ELSE IF ~HasKey(data, slots[i].name)
    THEN [threw |-> TRUE, error |-> MissingSlotOf(slots[i].name), buffers |-> buffers]
    ELSE LET array == slotArray(slots[i].tem, Get(data, slots[i].name))
             buffer == createBuffer(made + Len(buffers) + 1, dev,
                                    Float32ArrayOf(array), "STORAGE")
         IN  bindSlots(slots, data, dev, made, i + 1,
                       Append(buffers, [name |-> slots[i].name, buffer |-> buffer]))

\* entries: buffers.map((item, index) => ({binding: index, resource: {buffer}}))
groupEntries(buffers) ==
    [i \in 1..Len(buffers) |-> [binding |-> i - 1, buffer |-> buffers[i].buffer.id]]

\* createBindGroup(data) on an instance with the device dev (0: none) and
\* the template slots: what it throws or returns, and the buffers it created
createBindGroup(slots, dev, data, made) ==
    IF dev = 0
    THEN [threw |-> TRUE, error |-> NoDevice, buffers |-> <<>>, entries |-> <<>>,
          created |-> <<>>]
    ELSE LET r == bindSlots(slots, data, dev, made, 1, <<>>)
         IN  IF r.threw
             THEN [threw |-> TRUE, error |-> r.error, buffers |-> <<>>, entries |-> <<>>,
                   created |-> r.buffers]
             ELSE [threw |-> FALSE, error |-> NoError, buffers |-> r.buffers,
                   entries |-> groupEntries(r.buffers), created |-> r.buffers]

---------------------------------------------------------------------------
(* The compute pass: computed *)

\* "未找到可用计算管线，请确保计算管线已经创建成功"
NoPipeline == [name |-> "noPipeline", key |-> "", length |-> 0]

\* synchronize?.includes(name): synchronize is Undefined or an array of names
includes(synchronize, name) ==
    /\ isArray(synchronize)
    /\ \E i \in 1..Len(synchronize.elems) : synchronize.elems[i] = name

\* syncBuffers as a map that stages every buffer of the group
syncBuffersAll(buffers, synchronize) ==
    [i \in 1..Len(buffers) |-> [name |-> buffers[i].name, size |-> buffers[i].buffer.size,
                                from |-> buffers[i].buffer.id,
                                data |-> buffers[i].buffer.data]]

\* group.buffers.map(item => synchronize?.includes(item.name) ? staging : undefined)
\*     .filter(i => !!i), each staging buffer with the copy encoded into it
syncBuffers(buffers, synchronize) ==
    LET staged == SelectSeq(buffers, LAMBDA item : includes(synchronize, item.name))
    IN  [i \in 1..Len(staged) |-> [name |-> staged[i].name, size |-> staged[i].buffer.size,
                                   from |-> staged[i].buffer.id,
                                   data |-> staged[i].buffer.data]]

\* [...new Float32Array(mappedRange)] of each staging buffer
mappedResults(staging) == [i \in 1..Len(staging) |-> staging[i].data]

---------------------------------------------------------------------------
(* The legacy engine's computed: buildCode, createPipeline and the results *)

\* "webgpu未初始化或不可用"
NotInitialized == [name |-> "notInitialized", key |-> "", length |-> 0]

\* the reduce of computed over Object.keys(data) from key i on: a slot whose
\* first element is a number stays a number[], any other is built by
\* buildBuffer, whose error ends the call
RECURSIVE legacyBuffers(_, _, _)
legacyBuffers(data, i, buffers) ==
    IF i > Len(data.entries)
    THEN [threw |-> FALSE, error |-> NoError, buffers |-> buffers]
    ELSE LET k == data.entries[i].k
             value == data.entries[i].v
         IN  IF isArray(value) /\ typeofJs(Index(value.elems, 0)) = "number"
             THEN legacyBuffers(data, i + 1,
                                Append(buffers, [name |-> k, raw |-> TRUE, buffer |-> value.elems,
                                                 layout |-> <<>>, stride |-> Undefined]))
             ELSE LET b == buildBuffer(value)
                  IN  IF b.threw
                      THEN [threw |-> TRUE, error |-> b.error, buffers |-> <<>>]
                      ELSE legacyBuffers(data, i + 1,
                                         Append(buffers, [name |-> k, raw |-> FALSE,
                                                          buffer |-> b.buffer, layout |-> b.layout,
                                                          stride |-> b.stride]))

\* `${item.name}: ${item.type === 'f32' ? 'f32' : `${item.type}<f32>`}`
legacyMemberCode(item) ==
    <<item.name, ": ", IF item.type = "f32" THEN "f32" ELSE item.type \o "<f32>">>

\* the text buildCode returns: the struct of every built slot, a storage
\* declaration for every slot, option.beforeCodes, the wrapper and the code
buildCode(buffers, code, option) ==
    LET structured == SelectSeq(buffers, LAMBDA b : ~b.raw)
        structs == [i \in 1..Len(structured) |->
                       <<"struct ", capitalize(structured[i].name) \o "Struct", " { ">>
                           \o join([j \in 1..Len(structured[i].layout) |->
                                       legacyMemberCode(structured[i].layout[j])], ",")
                           \o <<" };">>]
        storages == [i \in 1..Len(buffers) |->
                       <<"@group(0) @binding(", ToString(i - 1), ") var<storage, ",
                         "read_write", "> ", buffers[i].name, ": ",
                         IF buffers[i].raw THEN "array<f32>"
                         ELSE "array<" \o capitalize(buffers[i].name) \o "Struct" \o ">",
                         ";">>]
    IN  join(structs, "\n") \o <<"\n">> \o join(storages, "\n")
            \o beforeCode(OrDefault(option.beforeCodes, Arr(<<>>)).elems)
            \o <<"@compute @workgroup_size(", "32,1,1",
                 ") fn main(@builtin(global_invocation_id) ", "grid", ": vec3<u32>) { var ",
                 "index", " = ", "grid", ".x; ", code, " }">>

\* bufferInfoList of createPipeline: the slot at position index of the keys
\* gets a buffer of its numbers and the binding index in the layout entry
\* and in the group entry
bufferInfoList(buffers, dev, made) ==
    [i \in 1..Len(buffers) |->
        [name |-> buffers[i].name,
         buffer |-> createBuffer(made + i, dev, Float32ArrayOf(buffers[i].buffer), "STORAGE"),
         groupLayoutItem |-> [binding |-> i - 1, visibility |-> "COMPUTE",
                              buffer |-> "storage"],
         groupItem |-> [binding |-> i - 1, buffer |-> made + i]]]

LegacyComputedThrow(e) ==
    [threw |-> TRUE, error |-> e, code |-> <<>>, buffers |-> <<>>, bufferInfoList |-> <<>>,
     results |-> <<>>]

\* computed(opt) of the legacy class after its reduce over the data gave b,
\* on a module whose adapter and device are oldAdapter and oldDevice (0: null)
legacyComputed(b, synchronize, option, oldAdapter, oldDevice, made) ==
    IF b.threw THEN LegacyComputedThrow(b.error)
    ELSE IF oldAdapter = 0 \/ oldDevice = 0 THEN LegacyComputedThrow(NotInitialized)
    ELSE LET list == bufferInfoList(b.buffers, oldDevice, made)
         IN  [threw |-> FALSE, error |-> NoError,
              code |-> buildCode(b.buffers, option.code.s, option),
              buffers |-> b.buffers,
              bufferInfoList |-> list,
              results |-> mappedResults(syncBuffers(list, synchronize))]

---------------------------------------------------------------------------
(* The inputs the operations are called with *)

\* field names, by position in the field list
KeyNames == <<"a", "b", "c", "d", "e", "f", "g", "h">>

TypeSet == {wgslTypes[i] : i \in 1..Len(wgslTypes)}

\* n, n+1, ... : values that tell positions apart
Ramp(from, n) == [j \in 1..n |-> Num(from + j - 1)]

\* the first value of field i in record r
Base(i, r) == 100 * i + 20 * r

\* explicit field lists {name, type}, the empty one included
FieldLists ==
    UNION {{[i \in 1..n |-> [name |-> KeyNames[i], type |-> ts[i]]] :
                ts \in [1..n -> TypeSet]} : n \in 0..MaxFields}

\* explicit templates of the slot: a bare array or IStruct, or an IStructArray
ExplicitTemplates ==
    {StructTemplate(fs) : fs \in FieldLists}
        \cup {StructArrayTemplate(fs, Undefined) : fs \in FieldLists}

\* lengths of example arrays: every element count of the table, and some
\* lengths beside them
ExampleLengths == {0, 1, 2, 3, 4, 5, 12, 16, 17}

ExampleShapes ==
    {[kind |-> "number", len |-> 0], [kind |-> "string", len |-> 0]}
        \cup {[kind |-> "array", len |-> n] : n \in ExampleLengths}

ExampleValue(shape, i) ==
    CASE shape.kind = "number" -> Num(Base(i, 1))
      [] shape.kind = "string" -> BadStr
      [] shape.kind = "array" -> Arr(Ramp(Base(i, 1), shape.len))

\* example records: each field a number, a string or an array
ExampleRecords ==
    UNION {{Obj([i \in 1..n |-> [k |-> KeyNames[i], v |-> ExampleValue(sh[i], i)]]) :
                sh \in [1..n -> ExampleShapes]} : n \in 0..MaxFields}

\* slot values buildBufferTypeByData is given: numbers, records, one record
ExampleSlotValues ==
    {Arr(<<>>), Arr(Ramp(1, 2))}
        \cup {Arr(<<e>>) : e \in ExampleRecords}
        \cup ExampleRecords

\* how a record supplies one field of a given size: the kinds that differ
\* for that size ("wrapped" is "exact" for a vector, "scalar" is "exact" for
\* a scalar)
PlainKinds(size) == IF size = 1 THEN {"exact", "wrapped", "missing"} ELSE {"exact", "missing"}
OddKinds(size) ==
    {"short", "long", "null", "undefined", "badstr", "numstr", "badelem"}
        \cup (IF size = 1 THEN {} ELSE {"scalar"})
AllKinds == {"exact", "wrapped", "missing", "scalar", "short", "long", "null",
             "undefined", "badstr", "numstr", "badelem"}

FieldValue(kind, size, from) ==
    CASE kind = "exact" -> IF size = 1 THEN Num(from) ELSE Arr(Ramp(from, size))
      [] kind = "wrapped" -> Arr(Ramp(from, size))
      [] kind = "scalar" -> Num(from)
      [] kind = "short" -> Arr(Ramp(from, size - 1))
      [] kind = "long" -> Arr(Ramp(from, size + 1))
      [] kind = "null" -> Null
      [] kind = "undefined" -> Undefined
      [] kind = "badstr" -> BadStr
      [] kind = "numstr" -> NumStr(from)
      [] kind = "badelem" -> Arr(Append(Ramp(from, size - 1), BadStr))

\* one kind per field: any mix of plain kinds, or one odd field among exact ones
KindVectors(layout) ==
    LET n == Len(layout)
        size(i) == TYPE_SIZE(layout[i].type)
    IN  {ks \in [1..n -> AllKinds] : \A i \in 1..n : ks[i] \in PlainKinds(size(i))}
            \cup UNION {{[i \in 1..n |-> IF i = j THEN k ELSE "exact"] :
                            k \in OddKinds(size(j))} : j \in 1..n}

\* the entries of the fields k.. of record r
RECURSIVE RecordEntries(_, _, _, _)
RecordEntries(layout, kinds, r, k) ==
    IF k > Len(layout)
    THEN <<>>
    ELSE (IF kinds[k] = "missing"
          THEN <<>>
          ELSE <<[k |-> layout[k].name,
                  v |-> FieldValue(kinds[k], TYPE_SIZE(layout[k].type), Base(k, r))]>>)
         \o RecordEntries(layout, kinds, r, k + 1)

RecordOf(layout, kinds, r) == Obj(RecordEntries(layout, kinds, r, 1))

\* slot values handed to a buffer build for the template tem
SlotValues(tem) ==
    IF isStruct(tem)
    THEN {RecordOf(tem.layout, ks, 1) : ks \in KindVectors(tem.layout)}
    ELSE IF isStructArray(tem)
    THEN {Arr([r \in 1..n |-> RecordOf(tem.layout, ks, r)]) :
            ks \in KindVectors(tem.layout), n \in 0..MaxRecords}
    ELSE {Arr(Ramp(1, n)) : n \in 0..MaxRecords} \cup {Arr(<<Obj(<<>>)>>)}

\* flat arrays handed to dataMap by a caller that built nothing
FlatLengths(tem) ==
    IF isStructArray(tem)
    THEN {0, 5, tem.stride.n - 1, tem.stride.n, tem.stride.n + 1, 2 * tem.stride.n}
    ELSE {0, 5}

\* data of the legacy buildBuffer: an example record first, then records of
\* the layout inferred from it
LegacyData ==
    {Arr(<<>>)}
        \cup {Arr(<<e>>) : e \in ExampleRecords}
        \cup UNION {
               LET plan == buildBuffer(Arr(<<e>>))
               IN  IF plan.threw
                   THEN {}
                   ELSE {Arr(<<e>> \o [r \in 1..n |-> RecordOf(plan.layout, ks, r + 1)]) :
                            ks \in KindVectors(plan.layout), n \in 1..(MaxRecords - 1)}
               : e \in ExampleRecords}

---------------------------------------------------------------------------
(* The inputs of the instance's life cycle *)

\* slot names, by position
SlotNames == <<"input", "output", "extra", "more">>

\* what a slot of an explicit template can be: a bare array, an IStruct and
\* an IStructArray, a scalar, the vectors and a matrix among their fields
SlotTemplates ==
    <<RawTemplate,
      StructTemplate(<<[name |-> "a", type |-> "f32"], [name |-> "b", type |-> "vec2"],
                       [name |-> "c", type |-> "vec4"]>>),
      StructArrayTemplate(<<[name |-> "a", type |-> "vec3"], [name |-> "b", type |-> "mat3x3"]>>,
                          Undefined)>>

\* n values of the list values in turn, begun at the place first
InTurn(values, first, n) ==
    [i \in 1..n |-> values[((first + i - 2) % Len(values)) + 1]]

\* the keys of a template of n slots: the first n slot names, in their
\* order or in the reverse of it
KeyOrders(n) ==
    {[i \in 1..n |-> SlotNames[i]], [i \in 1..n |-> SlotNames[n + 1 - i]]}

\* the templates an instance is constructed with: up to MaxSlots slots, the
\* three kinds of slot in turn
Templates ==
    UNION {{[i \in 1..n |-> [name |-> ks[i],
                             tem |-> InTurn(SlotTemplates, first, n)[i]]] :
                ks \in KeyOrders(n), first \in 1..Len(SlotTemplates)} : n \in 0..MaxSlots}

\* the values createBindGroup is given for a slot
SlotData(tem) ==
    IF isStruct(tem)
    THEN {RecordOf(tem.layout, [k \in 1..Len(tem.layout) |-> "exact"], 1)}
    ELSE IF isStructArray(tem)
    THEN {Arr([r \in 1..MaxRecords |->
                 RecordOf(tem.layout, [k \in 1..Len(tem.layout) |-> "exact"], r)])}
    ELSE {Arr(Ramp(7, MaxRecords + 1))}

\* the data objects createBindGroup is given: a value for every slot, or for
\* every slot but one
RECURSIVE DataEntries(_, _, _)
DataEntries(slots, values, i) ==
    IF i > Len(slots) THEN <<>>
    ELSE (IF values[i] = Undefined THEN <<>>
          ELSE <<[k |-> slots[i].name, v |-> values[i]]>>)
         \o DataEntries(slots, values, i + 1)

Datas(slots) ==
    LET all == {vs \in [1..Len(slots) -> UNION {SlotData(slots[i].tem) : i \in 1..Len(slots)}
                                             \cup {Undefined}] :
                   /\ \A i \in 1..Len(slots) :
                         vs[i] = Undefined \/ vs[i] \in SlotData(slots[i].tem)
                   /\ Cardinality({i \in 1..Len(slots) : vs[i] = Undefined}) <= 1}
    IN  {Obj(DataEntries(slots, vs, 1)) : vs \in all}

\* the synchronize arguments of computed: none, one name of a slot, the
\* first name twice around a name of no slot, the names of the template in
\* reverse
SyncLists(slots) ==
    LET names == {slots[i].name : i \in 1..Len(slots)}
    IN  {Undefined, Arr(<<"other">>)}
            \cup {Arr(<<n>>) : n \in names}
            \cup (IF Len(slots) > 0
                  THEN {Arr(<<slots[1].name, "other", slots[1].name>>)}
                  ELSE {})
            \cup (IF Len(slots) > 1
                  THEN {Arr([i \in 1..Len(slots) |-> slots[Len(slots) + 1 - i].name])}
                  ELSE {})

\* the code and the option of the legacy computed: an empty body, or a body
\* and two snippets
LegacyOptions ==
    {[beforeCodes |-> Undefined, code |-> Text("")],
     [beforeCodes |-> Arr(<<"fn one() -> f32 { return 1.0; }",
                            "fn two() -> f32 { return 2.0; }">>),
      code |-> Text("output[index] = one() + two();")]}

\* the data the legacy computed is given: number slots and record slots
LegacyDatas ==
    LET values == <<Arr(Ramp(7, 2)),
                   Arr(<<Obj(<<[k |-> "a", v |-> Num(1)], [k |-> "b", v |-> Arr(Ramp(2, 3))]>>)>>),
                   Arr([r \in 1..MaxRecords |->
                          Obj(<<[k |-> "a", v |-> Arr(Ramp(20 * r, 2))],
                                [k |-> "b", v |-> Arr(Ramp(20 * r + 2, 12))]>>)]),
                   Arr(<<>>)>>
    IN  UNION {{Obj([i \in 1..n |-> [k |-> ks[i], v |-> InTurn(values, first, n)[i]]]) :
                  ks \in KeyOrders(n), first \in 1..Len(values)} : n \in 0..MaxSlots}

---------------------------------------------------------------------------
(* The state machine *)

\* the name of the instance's slot
SlotName == "input"

\* `传入的数据中，不存在${name}字段`
MissingSlot == [name |-> "missingSlot", key |-> SlotName, length |-> 0]
\* "未找到数据字段：" + key
MissingKey(key) == [name |-> "missingKey", key |-> key, length |-> 0]

NotInferred ==
    [called |-> FALSE, value |-> Undefined, threw |-> FALSE, error |-> NoError,
     hasKey |-> FALSE, tem |-> NoTemplate]

NotBuilt ==
    [called |-> FALSE, value |-> Undefined, threw |-> FALSE, error |-> NoError,
     array |-> <<>>]

NotMapped ==
    [called |-> FALSE, key |-> "", flat |-> <<>>, threw |-> FALSE, error |-> NoError,
     value |-> Undefined]

NoLegacy ==
    [called |-> FALSE, value |-> Undefined, threw |-> FALSE, error |-> NoError,
     buffer |-> <<>>, stride |-> Undefined, layout |-> <<>>, count |-> 0]

Init ==
    /\ inferred = NotInferred
    /\ template = NoTemplate
    /\ built = NotBuilt
    /\ mapped = NotMapped
    /\ legacy = NoLegacy
    /\ env = "gpu"
    /\ adapter = 0
    /\ device = 0
    /\ gpu = [devices |-> 0, destroyed |-> {}, buffers |-> 0, groups |-> 0]
    /\ call = [pc |-> [c \in {"init", "initPipeline", "getDevice", "computed"} |-> "idle"],
               dev |-> [c \in {"init", "initPipeline", "getDevice", "computed"} |-> 0],
               last |-> [name |-> "", status |-> "none", error |-> NoError, dev |-> 0,
                         obtained |-> FALSE]]
    /\ self = [made |-> FALSE, template |-> <<>>, device |-> 0, pipeline |-> 0,
               groupLayout |-> <<>>, code |-> <<>>]
    /\ group = [called |-> FALSE, data |-> Undefined, reuse |-> FALSE, previous |-> <<>>,
                threw |-> FALSE, error |-> NoError, buffers |-> <<>>, entries |-> <<>>,
                created |-> <<>>]
    /\ run = [called |-> FALSE, synchronize |-> Undefined, buffers |-> <<>>,
              submitted |-> FALSE, staging |-> <<>>, results |-> <<>>, mapped |-> NotMapped]
    /\ old = [adapter |-> 0, device |-> 0, devices |-> 0,
              init |-> [pc |-> "idle", status |-> "none", error |-> NoError, dev |-> 0,
                        obtained |-> FALSE],
              run |-> [called |-> FALSE, data |-> Undefined, synchronize |-> Undefined,
                       threw |-> FALSE, error |-> NoError, code |-> <<>>, buffers |-> <<>>,
                       bufferInfoList |-> <<>>, results |-> <<>>]]

\* GpuComputed.buildBufferTypeByData(data) on an example slot value
BuildBufferTypeByData ==
    /\ ~inferred.called
    /\ template = NoTemplate
    /\ ~legacy.called
    /\ \E value \in ExampleSlotValues :
          LET r == buildBufferTypeByData(value)
          IN  inferred' = [called |-> TRUE, value |-> value, threw |-> r.threw,
                           error |-> r.error, hasKey |-> r.hasKey, tem |-> r.tem]
    /\ UNCHANGED <<template, built, mapped, legacy>>
    /\ UNCHANGED pipelineVars

\* new GpuComputed(template) with an explicit template
NewExplicit ==
    /\ ~inferred.called
    /\ template = NoTemplate
    /\ ~legacy.called
    /\ \E tem \in ExplicitTemplates : template' = improveTemplateOption(tem)
    /\ UNCHANGED <<inferred, built, mapped, legacy>>
    /\ UNCHANGED pipelineVars

\* new GpuComputed(GpuComputed.buildBufferTypeByData(data)), as fromByData
\* constructs its instance; an inference error leaves no instance
NewByData ==
    /\ ~inferred.called
    /\ template = NoTemplate
    /\ ~legacy.called
    /\ \E value \in ExampleSlotValues :
          LET r == buildBufferTypeByData(value)
          IN  /\ ~r.threw
              /\ r.hasKey
              /\ template' = improveTemplateOption(r.tem)
    /\ UNCHANGED <<inferred, built, mapped, legacy>>
    /\ UNCHANGED pipelineVars

\* the slot's array in createBindGroup(data): data without the slot throws
BuildSlotArray ==
    /\ template # NoTemplate
    /\ ~built.called
    /\ ~mapped.called
    /\ \/ built' = [called |-> TRUE, value |-> Undefined, threw |-> TRUE,
                    error |-> MissingSlot, array |-> <<>>]
       \/ \E value \in SlotValues(template) :
             built' = [called |-> TRUE, value |-> value, threw |-> FALSE,
                       error |-> NoError, array |-> slotArray(template, value)]
    /\ UNCHANGED <<inferred, template, mapped, legacy>>
    /\ UNCHANGED pipelineVars

\* dataMap(array, key): on the array that was built, or on a flat array of
\* the caller's; a key that is no slot of the template throws
DataMap ==
    /\ template # NoTemplate
    /\ ~mapped.called
    /\ \/ /\ ~built.called
          /\ mapped' = [called |-> TRUE, key |-> "other", flat |-> <<>>,
                        threw |-> TRUE, error |-> MissingKey("other"), value |-> Undefined]
       \/ \E arr \in (IF built.called /\ ~built.threw
                      THEN {built.array}
                      ELSE {Ramp(1, n) : n \in FlatLengths(template)}) :
             mapped' = [called |-> TRUE, key |-> SlotName, flat |-> arr,
                        threw |-> FALSE, error |-> NoError,
                        value |-> dataMap(arr, template)]
    /\ UNCHANGED <<inferred, template, built, legacy>>
    /\ UNCHANGED pipelineVars

\* the legacy engine's buildBuffer(data)
LegacyBuildBuffer ==
    /\ ~legacy.called
    /\ ~inferred.called
    /\ template = NoTemplate
    /\ \E value \in LegacyData :
          LET r == buildBuffer(value)
          IN  legacy' = [called |-> TRUE, value |-> value, threw |-> r.threw,
                         error |-> r.error, buffer |-> r.buffer, stride |-> r.stride,
                         layout |-> r.layout, count |-> r.count]
    /\ UNCHANGED <<inferred, template, built, mapped>>
    /\ UNCHANGED pipelineVars

Next ==
    \/ BuildBufferTypeByData
    \/ NewExplicit
    \/ NewByData
    \/ BuildSlotArray
    \/ DataMap
    \/ LegacyBuildBuffer

Spec == Init /\ [][Next]_vars

---------------------------------------------------------------------------
(* The instance's life cycle: init, initPipeline, createBindGroup, computed, *)
(* dataMap and destroy of the current class, and init and computed of the    *)
(* legacy one.  An asynchronous call advances one await at a time.           *)

\* "该环境不支持webgpu"
Unsupported == [name |-> "unsupported", key |-> "", length |-> 0]
\* "获取适配器失败"
AdapterFailed == [name |-> "adapterFailed", key |-> "", length |-> 0]
\* "获取设备失败"
DeviceFailed == [name |-> "deviceFailed", key |-> "", length |-> 0]
\* the rejection of adapter.requestDevice()
RequestRejected == [name |-> "requestDeviceRejected", key |-> "", length |-> 0]
\* the rejection of mapAsync on a buffer of a destroyed device
MapRejected == [name |-> "mapAsyncRejected", key |-> "", length |-> 0]

\* the asynchronous calls of the current class
Calls == {"init", "initPipeline", "getDevice", "computed"}

\* the calls of the device layer: the last of them to end is kept in call.last,
\* computed ends in run
DeviceCalls == {"init", "initPipeline", "getDevice"}

\* how a step of a call leaves it: at an await (pc), or ended (idle) by a
\* return or a throw; dev is the device the call holds or returns, obtained
\* whether its requestDevice gave a device
Returned(dev, obtained) ==
    [pc |-> "idle", status |-> "returned", error |-> NoError, dev |-> dev,
     obtained |-> obtained]
Threw(e) == [pc |-> "idle", status |-> "threw", error |-> e, dev |-> 0, obtained |-> FALSE]
At(pc, dev) == [pc |-> pc, status |-> "none", error |-> NoError, dev |-> dev, obtained |-> FALSE]

\* no call in flight, none ended
NoCalls ==
    [pc |-> [c \in Calls |-> "idle"], dev |-> [c \in Calls |-> 0],
     last |-> [name |-> "", status |-> "none", error |-> NoError, dev |-> 0,
               obtained |-> FALSE]]

\* the calls after the call c took the step r
Step(calls, c, r) ==
    [pc |-> [calls.pc EXCEPT ![c] = r.pc],
     dev |-> [calls.dev EXCEPT ![c] = r.dev],
     last |-> IF r.status = "none" \/ c \notin DeviceCalls THEN calls.last
              ELSE [name |-> c, status |-> r.status, error |-> r.error, dev |-> r.dev,
                    obtained |-> r.obtained]]

NoInstance ==
    [made |-> FALSE, template |-> <<>>, option |-> NoOption, device |-> 0, pipeline |-> 0,
     groupLayout |-> <<>>, code |-> <<>>]
NoGroup ==
    [called |-> FALSE, data |-> Undefined, reuse |-> FALSE, previous |-> <<>>,
     threw |-> FALSE, error |-> NoError, buffers |-> <<>>, entries |-> <<>>, created |-> <<>>]
\* the static computed(opt) is not called
NoStatic ==
    [called |-> FALSE, data |-> Undefined, synchronize |-> Undefined, map |-> FALSE,
     threw |-> FALSE, error |-> NoError, returned |-> FALSE, value |-> Undefined]
NoRun ==
    [called |-> FALSE, synchronize |-> Undefined, threw |-> FALSE, error |-> NoError, submitted |-> FALSE, returned |-> FALSE, staging |-> <<>>,
     results |-> <<>>, mapped |-> NotMapped, static |-> NoStatic]
NoOldRun ==
    [called |-> FALSE, data |-> Undefined, synchronize |-> Undefined, threw |-> FALSE,
     error |-> NoError, option |-> NoOption, code |-> <<>>, buffers |-> <<>>,
     bufferInfoList |-> <<>>, results |-> <<>>]
NoOld == [adapter |-> 0, device |-> 0, devices |-> 0, init |-> At("idle", 0), run |-> NoOldRun]
NoGpu == [devices |-> 0, destroyed |-> {}, buffers |-> 0, groups |-> 0]

\* the layout engine's variables before any call
LayoutIdle ==
    /\ inferred = NotInferred
    /\ template = NoTemplate
    /\ built = NotBuilt
    /\ mapped = NotMapped
    /\ legacy = NoLegacy

\* the modules as loaded: no adapter, no device, no instance
PipelineIdle ==
    /\ adapter = 0
    /\ device = 0
    /\ gpu = NoGpu
    /\ call = NoCalls
    /\ self = NoInstance
    /\ group = NoGroup
    /\ run = NoRun
    /\ old = NoOld

\* the sole use of the current class, or of the legacy one, in a behaviour
CurrentOnly == old = NoOld
LegacyOnly ==
    /\ ~self.made
    /\ adapter = 0
    /\ device = 0
    /\ call = NoCalls
    /\ run = NoRun

\* how init, begun by the call c, goes on when it returns or throws:
\* initPipeline goes on to its getDevice, or ends with init's error
afterInit(c, ended) ==
    IF c = "initPipeline" /\ ended.status = "returned" THEN At("getDevice", 0) ELSE ended

\* the part of init before its first await: it returns at once with an
\* adapter and a device, throws without navigator.gpu, and else awaits
\* requestAdapter, or requestDevice of the adapter it has
initBegin(c, hasGpu, a, d) ==
    IF a # 0 /\ d # 0 THEN afterInit(c, Returned(d, FALSE))
    ELSE IF ~hasGpu THEN Threw(Unsupported)
    ELSE IF a = 0 THEN At("requestAdapter", 0)
    ELSE At("requestDevice", 0)

\* the end of init after device = await adapter.requestDevice():
\* if (!adapter) throw new Error("获取设备失败")
initEnd(c, a, d) ==
    IF a = 0 THEN Threw(DeviceFailed) ELSE afterInit(c, Returned(d, d # 0))

\* getDevice as a check that throws only with both unset
getDeviceBoth(a, d) ==
    IF a = 0 /\ d = 0 THEN Threw(NotInitialized) ELSE Returned(d, FALSE)

\* getDevice(): if (!adapter || !device) throw; return {adapter, device}
getDevice(a, d) ==
    IF a = 0 \/ d = 0 THEN Threw(NotInitialized) ELSE Returned(d, FALSE)

\* new GpuComputed(template): the constructor keeps the template and
\* completes every slot of it
New(templates) ==
    /\ CurrentOnly
    /\ ~self.made
    /\ \E slots \in templates :
          self' = [NoInstance EXCEPT
                      !.made = TRUE,
                      !.template = [i \in 1..Len(slots) |->
                                      [name |-> slots[i].name,
                                       tem |-> improveTemplateOption(slots[i].tem)]]]
    /\ UNCHANGED <<layoutVars, env, adapter, device, gpu, call, group, run, old>>

\* GpuComputed.init() is called, by the caller or first thing by initPipeline
InitBegin(calls) ==
    /\ CurrentOnly
    /\ \E c \in calls :
          /\ call.pc[c] = "idle"
          /\ c = "initPipeline" => self.made
          /\ call' = Step(call, c, initBegin(c, env = "gpu", adapter, device))
    /\ UNCHANGED <<layoutVars, env, adapter, device, gpu, self, group, run, old>>

\* adapter = await navigator.gpu.requestAdapter({}): an adapter or null
RequestAdapter ==
    \E c \in {"init", "initPipeline"} :
        /\ call.pc[c] = "requestAdapter"
        /\ \E a \in {0, 1} :
              /\ adapter' = a
              /\ call' = Step(call, c, IF a = 0 THEN Threw(AdapterFailed)
                                       ELSE At("requestDevice", 0))
        /\ UNCHANGED <<layoutVars, env, device, gpu, self, group, run, old>>

\* device = await adapter.requestDevice(): a new device, a rejection, or a
\* promise that resolves without a device
RequestDevice ==
    \E c \in {"init", "initPipeline"} :
        /\ call.pc[c] = "requestDevice"
        /\ \/ /\ gpu.devices < MaxDevices
              /\ device' = gpu.devices + 1
              /\ gpu' = [gpu EXCEPT !.devices = gpu.devices + 1]
              /\ call' = Step(call, c, initEnd(c, adapter, gpu.devices + 1))
           \/ /\ call' = Step(call, c, Threw(RequestRejected))
              /\ UNCHANGED <<device, gpu>>
           \/ /\ device' = 0
              /\ call' = Step(call, c, initEnd(c, adapter, 0))
              /\ UNCHANGED gpu
        /\ UNCHANGED <<layoutVars, env, adapter, self, group, run, old>>

\* getDevice() called by the caller
GetDevice ==
    /\ CurrentOnly
    /\ self.made
    /\ call.pc["getDevice"] = "idle"
    /\ call' = Step(call, "getDevice", getDevice(adapter, device))
    /\ UNCHANGED <<layoutVars, env, adapter, device, gpu, self, group, run, old>>

\* const {device} = await this.getDevice() of initPipeline, after its init
PipelineGetDevice ==
    /\ call.pc["initPipeline"] = "getDevice"
    /\ call' = Step(call, "initPipeline",
                    LET g == getDevice(adapter, device)
                    IN  IF g.status = "threw" THEN g ELSE At("build", g.dev))
    /\ UNCHANGED <<layoutVars, env, adapter, device, gpu, self, group, run, old>>

\* BuildPipeline as a step that also stores the template with its keys in
\* the reverse order
BuildPipelineReversing ==
    /\ call.pc["initPipeline"] = "build"
    /\ self' = [self EXCEPT
                   !.template = [i \in 1..Len(self.template) |->
                                   self.template[Len(self.template) + 1 - i]],
                   !.device = call.dev["initPipeline"],
                   !.code = completeCode(self.template, self.option),
                   !.groupLayout = [i \in 1..Len(self.template) |-> groupLayoutEntry(i - 1)],
                   !.pipeline = call.dev["initPipeline"]]
    /\ call' = Step(call, "initPipeline", Returned(call.dev["initPipeline"], FALSE))
    /\ UNCHANGED <<layoutVars, env, adapter, device, gpu, group, run, old>>

\* the rest of initPipeline, after await this.getDevice(): this.device, the
\* code, the bind group layout and the pipeline
BuildPipeline ==
    /\ call.pc["initPipeline"] = "build"
    /\ self' = [self EXCEPT
                   !.device = call.dev["initPipeline"],
                   !.code = completeCode(self.template, self.option),
                   !.groupLayout = [i \in 1..Len(self.template) |-> groupLayoutEntry(i - 1)],
                   !.pipeline = call.dev["initPipeline"]]
    /\ call' = Step(call, "initPipeline", Returned(call.dev["initPipeline"], FALSE))
    /\ UNCHANGED <<layoutVars, env, adapter, device, gpu, group, run, old>>

\* GpuComputed.destroy()
Destroy ==
    /\ CurrentOnly
    /\ device # 0
    /\ gpu' = [gpu EXCEPT !.destroyed = gpu.destroyed \cup {device}]
    /\ device' = 0
    /\ UNCHANGED <<layoutVars, env, adapter, call, self, group, run, old>>

\* createBindGroup(data), also called with the group of the call before as
\* a second argument, which the method does not declare; a call that throws
\* for want of a device has read no data
CreateBindGroup ==
    /\ CurrentOnly
    /\ self.made
    /\ gpu.groups < MaxGroups
    /\ call.pc["computed"] = "idle"
    /\ \E data \in Datas(self.template), reuse \in BOOLEAN :
          /\ reuse => (group.called /\ ~group.threw)
          /\ \E r \in {createBindGroup(self.template, self.device, data, gpu.buffers)} :
                 /\ group' = [called |-> TRUE,
                              data |-> IF self.device = 0 THEN Undefined ELSE data,
                              reuse |-> reuse,
                              previous |-> IF reuse THEN groupEntries(group.buffers) ELSE <<>>,
                              threw |-> r.threw, error |-> r.error, buffers |-> r.buffers,
                              entries |-> r.entries, created |-> groupEntries(r.created)]
                 /\ gpu' = [gpu EXCEPT !.buffers = gpu.buffers + Len(r.created),
                                       !.groups = IF self.device = 0 THEN gpu.groups
                                                  ELSE gpu.groups + 1]
    /\ run' = NoRun
    /\ UNCHANGED <<layoutVars, env, adapter, device, call, self, old>>

\* computed(group, workgroupCount, synchronize) up to its first await: the
\* pass, the staging buffers with their copies, and the submission.  The
\* group is the one the last createBindGroup returned; a call that throws
\* for want of a pipeline has read neither the group nor synchronize
Computed ==
    /\ CurrentOnly
    /\ self.made
    /\ call.pc["computed"] = "idle"
    /\ self.pipeline # 0 => (group.called /\ ~group.threw)
    /\ \E synchronize \in SyncLists(self.template) :
          IF self.pipeline = 0
          THEN /\ call' = Step(call, "computed", Threw(NoPipeline))
               /\ run' = [NoRun EXCEPT !.called = TRUE, !.threw = TRUE, !.error = NoPipeline]
          ELSE /\ call' = Step(call, "computed", At("submitted", self.device))
               /\ run' = [NoRun EXCEPT !.called = TRUE, !.synchronize = synchronize,
                                       !.submitted = TRUE,
                                       !.staging = syncBuffers(group.buffers, synchronize)]
    /\ UNCHANGED <<layoutVars, env, adapter, device, gpu, self, group, old>>

\* the rest of computed: the work is done and every staging buffer is
\* mapped and read; mapAsync rejects on a destroyed device
ComputedResults ==
    /\ call.pc["computed"] = "submitted"
    /\ IF Len(run.staging) > 0 /\ call.dev["computed"] \in gpu.destroyed
       THEN /\ call' = Step(call, "computed", Threw(MapRejected))
            /\ run' = [run EXCEPT !.threw = TRUE, !.error = MapRejected]
       ELSE /\ call' = Step(call, "computed", Returned(call.dev["computed"], FALSE))
            /\ run' = [run EXCEPT !.returned = TRUE, !.results = mappedResults(run.staging)]
    /\ UNCHANGED <<layoutVars, env, adapter, device, gpu, self, group, old>>

\* dataMap(array, key) on a result of the last computed
DataMapSlot ==
    /\ CurrentOnly
    /\ self.made
    /\ call.pc["computed"] = "idle"
    /\ ~run.mapped.called
    /\ \E flat \in {run.results[i] : i \in 1..Len(run.results)},
          key \in {self.template[i].name : i \in 1..Len(self.template)} \cup {"other"} :
          LET at == {i \in 1..Len(self.template) : self.template[i].name = key}
          IN  run' = [run EXCEPT !.mapped =
                        IF at = {}
                        THEN [called |-> TRUE, key |-> key, flat |-> flat, threw |-> TRUE,
                              error |-> MissingKey(key), value |-> Undefined]
                        ELSE [called |-> TRUE, key |-> key, flat |-> flat, threw |-> FALSE,
                              error |-> NoError,
                              value |-> dataMap(flat, self.template[CHOOSE i \in at : TRUE].tem)]]
    /\ UNCHANGED <<layoutVars, env, adapter, device, gpu, call, self, group, old>>

\* init() of the legacy class, one await at a time: it requests an adapter
\* and a device every time
LegacyInit ==
    /\ LegacyOnly
    /\ ~old.run.called
    /\ \/ /\ old.init.pc = "idle"
          /\ old' = [old EXCEPT !.init = IF env = "gpu" THEN At("requestAdapter", 0)
                                         ELSE Threw(Unsupported)]
       \/ /\ old.init.pc = "requestAdapter"
          /\ \E a \in {0, 1} :
                old' = [old EXCEPT !.adapter = a,
                                   !.init = IF a = 0 THEN Threw(AdapterFailed)
                                            ELSE At("requestDevice", 0)]
       \/ /\ old.init.pc = "requestDevice"
          /\ \/ /\ old.devices < MaxDevices
                /\ old' = [old EXCEPT !.device = old.devices + 1,
                                      !.devices = old.devices + 1,
                                      !.init = initEnd("init", old.adapter, old.devices + 1)]
             \/ old' = [old EXCEPT !.init = Threw(RequestRejected)]
             \/ old' = [old EXCEPT !.device = 0, !.init = initEnd("init", old.adapter, 0)]
    /\ UNCHANGED <<layoutVars, env, adapter, device, gpu, call, self, group, run>>

\* computed(opt) of the legacy class
LegacyComputed ==
    /\ LegacyOnly
    /\ old.init.pc = "idle"
    /\ ~old.run.called
    /\ \E data \in LegacyDatas, option \in LegacyOptions :
          \E synchronize \in SyncLists([i \in 1..Len(data.entries) |->
                                          [name |-> data.entries[i].k]]) :
             \E b \in {legacyBuffers(data, 1, <<>>)} :
             \E r \in {legacyComputed(b, synchronize, option, old.adapter, old.device, 0)} :
                 old' = [old EXCEPT !.run =
                            [called |-> TRUE, data |-> data, synchronize |-> synchronize,
                             option |-> option, threw |-> r.threw, error |-> r.error, code |-> r.code,
                             buffers |-> r.buffers, bufferInfoList |-> r.bufferInfoList,
                             results |-> r.results]]
    /\ UNCHANGED <<layoutVars, env, adapter, device, gpu, call, self, group, run>>

PipelineInit ==
    /\ LayoutIdle
    /\ env \in {"gpu", "noGpu"}
    /\ PipelineIdle

\* an instance of any template, initialized by its initPipeline, its bind
\* groups, passes and mapped results; and the legacy class
PipelineNext ==
    \/ New(Templates)
    \/ InitBegin({"initPipeline"})
    \/ RequestAdapter
    \/ RequestDevice
    \/ PipelineGetDevice
    \/ BuildPipeline
    \/ CreateBindGroup
    \/ Computed
    \/ ComputedResults
    \/ DataMapSlot
    \/ LegacyInit
    \/ LegacyComputed

PipelineSpec == PipelineInit /\ [][PipelineNext]_vars

\* the device layer: init called by the caller and by initPipeline, side by
\* side, destroy, and an instance of one bare slot
DeviceNext ==
    \/ New({<<[name |-> "input", tem |-> RawTemplate]>>})
    \/ InitBegin({"init", "initPipeline"})
    \/ RequestAdapter
    \/ RequestDevice
    \/ GetDevice
    \/ PipelineGetDevice
    \/ BuildPipeline
    \/ Destroy

DeviceSpec == PipelineInit /\ [][DeviceNext]_vars

\* the instance's whole life on the device layer: an instance of one bare
\* slot, initPipeline, bind groups, passes and destroy
LifetimeNext ==
    \/ New({<<[name |-> "input", tem |-> RawTemplate]>>})
    \/ InitBegin({"initPipeline"})
    \/ RequestAdapter
    \/ RequestDevice
    \/ PipelineGetDevice
    \/ BuildPipeline
    \/ Destroy
    \/ CreateBindGroup
    \/ Computed
    \/ ComputedResults

LifetimeSpec == PipelineInit /\ [][LifetimeNext]_vars

---------------------------------------------------------------------------
(* The static computed(opt): fromByData, createBindGroup, computed and the *)
(* mapping of the results                                                   *)

\* bufferDataType as a reduce that puts each new slot before the others
RECURSIVE bufferDataTypeFirst(_, _, _)
bufferDataTypeFirst(data, i, obj) ==
    IF i > Len(data.entries)
    THEN [threw |-> FALSE, error |-> NoError, slots |-> obj]
    ELSE LET r == buildBufferTypeByData(data.entries[i].v)
         IN  IF r.threw
             THEN [threw |-> TRUE, error |-> r.error, slots |-> <<>>]
             ELSE bufferDataTypeFirst(data, i + 1,
                                      IF r.hasKey
                                      THEN <<[name |-> data.entries[i].k, tem |-> r.tem]>> \o obj
                                      ELSE obj)

\* Object.keys(data).reduce(...) of buildBufferTypeByData from key i on: a
\* slot per key whose value has a template, or the error of the first
\* record that has none
RECURSIVE bufferDataType(_, _, _)
bufferDataType(data, i, obj) ==
    IF i > Len(data.entries)
    THEN [threw |-> FALSE, error |-> NoError, slots |-> obj]
    ELSE LET r == buildBufferTypeByData(data.entries[i].v)
         IN  IF r.threw
             THEN [threw |-> TRUE, error |-> r.error, slots |-> <<>>]
             ELSE bufferDataType(data, i + 1,
                                 IF r.hasKey
                                 THEN Append(obj, [name |-> data.entries[i].k, tem |-> r.tem])
                                 ELSE obj)

\* results.map((data, i) => gpuComputed.dataMap(data, synchronize[i])) from
\* result i on: the mapped values, or the error of the first key that is
\* no slot of the template
RECURSIVE mapResults(_, _, _, _, _)
mapResults(results, synchronize, slots, i, out) ==
    IF i >= Len(results)
    THEN [threw |-> FALSE, error |-> NoError, value |-> Arr(out)]
    ELSE LET key == Index(synchronize.elems, i)
             at == {k \in 1..Len(slots) : slots[k].name = key}
         IN  IF at = {}
             THEN [threw |-> TRUE, error |-> MissingKey(key), value |-> Undefined]
             ELSE mapResults(results, synchronize, slots, i + 1,
                             Append(out, dataMap(results[i + 1],
                                                 slots[CHOOSE k \in at : TRUE].tem)))

\* the values of a slot of opt.data: numbers, a record, records, no element,
\* and a record with a field of no type
StaticValues ==
    <<Arr(Ramp(7, MaxRecords + 1)),
      Obj(<<[k |-> "a", v |-> Num(1)], [k |-> "b", v |-> Arr(Ramp(2, 2))],
            [k |-> "c", v |-> Arr(Ramp(4, 4))]>>),
      Arr([r \in 1..MaxRecords |->
             Obj(<<[k |-> "a", v |-> Arr(Ramp(20 * r, 3))],
                   [k |-> "b", v |-> Arr(Ramp(20 * r + 3, 12))]>>)]),
      Arr(<<>>),
      Arr(<<Obj(<<[k |-> "a", v |-> BadStr]>>)>>)>>

\* the option of the instance: none, or two snippets and a body
Options ==
    {NoOption,
     [beforeCodes |-> Arr(<<"fn one() -> f32 { return 1.0; }",
                            "fn two() -> f32 { return 2.0; }">>),
      code |-> Text("output[index] = one() + two();")],
     [beforeCodes |-> Arr(<<"fn two() -> f32 { return 2.0; }",
                            "fn one() -> f32 { return 1.0; }">>),
      code |-> Undefined]}

\* opt.data: up to MaxSlots slots, the values in turn
StaticDatas ==
    UNION {{Obj([i \in 1..n |-> [k |-> ks[i], v |-> InTurn(StaticValues, first, n)[i]]]) :
              ks \in KeyOrders(n), first \in 1..Len(StaticValues)} : n \in 0..MaxSlots}

\* GpuComputed.computed(opt) up to the first await: fromByData infers the
\* template, constructs the instance and calls initPipeline, which calls init
StaticFromByData ==
    /\ CurrentOnly
    /\ ~self.made
    /\ ~run.static.called
    /\ \E data \in StaticDatas, map \in BOOLEAN, option \in Options :
       \E synchronize \in SyncLists([i \in 1..Len(data.entries) |->
                                       [name |-> data.entries[i].k]]) :
       \E t \in {bufferDataType(data, 1, <<>>)} :
          LET opt == [NoStatic EXCEPT !.called = TRUE, !.data = data,
                                      !.synchronize = synchronize, !.map = map]
          IN  IF t.threw
              THEN /\ run' = [run EXCEPT !.static = [opt EXCEPT !.threw = TRUE,
                                                                !.error = t.error]]
                   /\ UNCHANGED <<self, call>>
              ELSE /\ run' = [run EXCEPT !.static = opt]
                   /\ self' = [NoInstance EXCEPT
                                  !.made = TRUE,
                                  !.option = option,
                                  !.template = [i \in 1..Len(t.slots) |->
                                                  [name |-> t.slots[i].name,
                                                   tem |-> improveTemplateOption(t.slots[i].tem)]]]
                   /\ call' = Step(call, "initPipeline",
                                   initBegin("initPipeline", env = "gpu", adapter, device))
    /\ UNCHANGED <<layoutVars, env, adapter, device, gpu, group, old>>

\* initPipeline threw: fromByData rejects and so does the static computed
StaticRejected ==
    /\ run.static.called
    /\ ~run.static.threw
    /\ call.pc["initPipeline"] = "idle"
    /\ call.last.name = "initPipeline"
    /\ call.last.status = "threw"
    /\ run' = [run EXCEPT !.static.threw = TRUE, !.static.error = call.last.error]
    /\ UNCHANGED <<layoutVars, env, adapter, device, gpu, call, self, group, old>>

\* after await fromByData: createBindGroup(data), and computed(group,
\* workgroupCount, synchronize) up to its first await
StaticDispatch ==
    /\ run.static.called
    /\ ~run.static.threw
    /\ ~run.called
    /\ call.pc["initPipeline"] = "idle"
    /\ call.last.name = "initPipeline"
    /\ call.last.status = "returned"
    /\ \E r \in {createBindGroup(self.template, self.device, run.static.data, gpu.buffers)} :
          /\ group' = [NoGroup EXCEPT !.called = TRUE, !.data = run.static.data,
                                      !.threw = r.threw, !.error = r.error,
                                      !.buffers = r.buffers, !.entries = r.entries,
                                      !.created = groupEntries(r.created)]
          /\ gpu' = [gpu EXCEPT !.buffers = gpu.buffers + Len(r.created),
                                !.groups = gpu.groups + 1]
          /\ IF r.threw
             THEN /\ run' = [run EXCEPT !.static.threw = TRUE, !.static.error = r.error]
                  /\ UNCHANGED call
             ELSE /\ call' = Step(call, "computed", At("submitted", self.device))
                  /\ run' = [run EXCEPT !.called = TRUE,
                                        !.synchronize = run.static.synchronize,
                                        !.submitted = TRUE,
                                        !.staging = syncBuffers(r.buffers,
                                                                run.static.synchronize)]
    /\ UNCHANGED <<layoutVars, env, adapter, device, self, old>>

\* after await computed: with map the results are mapped one by one with the
\* keys of synchronize, else they are returned as they are
StaticMap ==
    /\ run.static.called
    /\ ~run.static.threw
    /\ ~run.static.returned
    /\ run.returned
    /\ IF run.static.map
       THEN \E m \in {mapResults(run.results, run.static.synchronize, self.template, 0, <<>>)} :
               run' = [run EXCEPT !.static.threw = m.threw, !.static.error = m.error,
                                  !.static.returned = ~m.threw, !.static.value = m.value]
       ELSE run' = [run EXCEPT !.static.returned = TRUE, !.static.value = Arr(run.results)]
    /\ UNCHANGED <<layoutVars, env, adapter, device, gpu, call, self, group, old>>

\* one call of the static computed with its option, step by step, or the
\* legacy class with its option
StaticNext ==
    \/ StaticFromByData
    \/ RequestAdapter
    \/ RequestDevice
    \/ PipelineGetDevice
    \/ BuildPipeline
    \/ StaticRejected
    \/ StaticDispatch
    \/ ComputedResults
    \/ StaticMap
    \/ LegacyInit
    \/ LegacyComputed

StaticSpec == PipelineInit /\ [][StaticNext]_vars

---------------------------------------------------------------------------
(* The specification's type table (spec section 3), stated apart from the *)
(* code's tables, and what the claims say of a layout                      *)

SpecElementCount(type) ==
    CASE type = "f32" -> 1
      [] type = "vec2" -> 2
      [] type = "vec3" -> 3
      [] type = "vec4" -> 4
      [] type = "mat3x3" -> 12
      [] type = "mat4x4" -> 16

SpecAlignment(type) ==
    CASE type = "f32" -> 1
      [] type = "vec2" -> 2
      [] type \in {"vec3", "vec4", "mat3x3", "mat4x4"} -> 4

ElementCounts == {SpecElementCount(t) : t \in TypeSet}

OffsetsAligned(layout) ==
    \A i \in 1..Len(layout) : layout[i].offset % SpecAlignment(layout[i].type) = 0

MaxAlignment(layout) ==
    LET as == {SpecAlignment(layout[i].type) : i \in 1..Len(layout)}
    IN  CHOOSE a \in as : \A b \in as : a >= b

PackedEnd(layout) == layout[Len(layout)].offset + layout[Len(layout)].size

RECURSIVE SumSizes(_, _)
SumSizes(layout, i) ==
    IF i > Len(layout) THEN 0 ELSE SpecElementCount(layout[i].type) + SumSizes(layout, i + 1)

StrideIsLeastMultiple(layout, stride) ==
    /\ stride.t = "number"
    /\ stride.n % MaxAlignment(layout) = 0
    /\ stride.n >= PackedEnd(layout)
    /\ \A m \in PackedEnd(layout)..(stride.n - 1) : m % MaxAlignment(layout) # 0
    /\ stride.n >= SumSizes(layout, 1)

\* a successful build for a struct-array slot, and its records
BuiltStructArray == built.called /\ ~built.threw /\ isStructArray(template)
BuiltStruct == built.called /\ ~built.threw /\ isStruct(template)
BuiltRecords == IF BuiltStructArray THEN built.value.elems ELSE <<>>

\* the record gives every field a number (a size-1 field) or a sequence of
\* exactly the field's size, all numbers
Conforms(record, layout) ==
    \A k \in 1..Len(layout) :
        LET v == Get(record, layout[k].name)
        IN  /\ HasKey(record, layout[k].name)
            /\ \/ layout[k].size = 1 /\ v.t = "number"
               \/ /\ isArray(v)
                  /\ Len(v.elems) = layout[k].size
                  /\ \A j \in 1..Len(v.elems) : v.elems[j].t = "number"

\* the record as the round trip gives it back: fields in layout order, a
\* single-element sequence unwrapped to its element
Unwrapped(record, layout) ==
    Obj([k \in 1..Len(layout) |->
            LET v == Get(record, layout[k].name)
            IN  [k |-> layout[k].name,
                 v |-> IF isArray(v) /\ Len(v.elems) = 1 THEN v.elems[1] ELSE v]])

---------------------------------------------------------------------------
(* C1..C10 *)

\* C1: every field offset the layout planner computes, by example
\* (buildStructTypeByData), for the instance's template
\* (improveTemplateOption) or in the legacy buildBuffer, is a multiple of
\* the alignment of the field's type.
C1_OffsetsAligned ==
    /\ OffsetsAligned(template.layout)
    /\ OffsetsAligned(inferred.tem.layout)
    /\ OffsetsAligned(legacy.layout)

\* a planned template in which a field had to be padded to its alignment
C1_Witness ==
    /\ isStructArray(template)
    /\ \E i \in 2..Len(template.layout) :
          template.layout[i].offset >
              template.layout[i - 1].offset + template.layout[i - 1].size

\* C2: the stride of a non-empty layout is the smallest multiple of the
\* largest field alignment that is at least the packed end of the last
\* field, and so at least the sum of the field sizes: the stride of a struct
\* array template, the stride planned by example, the length of the array
\* built for a single struct, and the legacy engine's stride.
C2_StrideLeastMultiple ==
    /\ isStructArray(template) => StrideIsLeastMultiple(template.layout, template.stride)
    /\ (inferred.tem.form = "object" /\ Len(inferred.tem.layout) > 0)
          => StrideIsLeastMultiple(inferred.tem.layout, inferred.tem.stride)
    /\ BuiltStruct => StrideIsLeastMultiple(template.layout, Num(Len(built.array)))
    /\ (legacy.called /\ ~legacy.threw)
          => StrideIsLeastMultiple(legacy.layout, legacy.stride)

\* a template whose stride is rounded up past the packed end
C2_Witness ==
    /\ isStructArray(template)
    /\ Len(template.layout) > 1
    /\ template.stride.n > PackedEnd(template.layout)

C4_BufferLength ==
    /\ (BuiltStructArray /\ Len(BuiltRecords) > 0)
          => Len(built.array) = template.stride.n * Len(BuiltRecords)
    /\ (legacy.called /\ ~legacy.threw)
          => Len(legacy.buffer) = legacy.stride.n * Len(legacy.value.elems)

\* a build of several records for a layout with padding
C4_Witness ==
    /\ BuiltStructArray
    /\ Len(BuiltRecords) > 1
    /\ template.stride.n > SumSizes(template.layout, 1)
    /\ Len(built.array) = template.stride.n * Len(BuiltRecords)

\* C5: a record that lacks fields of the layout builds without error, and
\* every element of a missing field is 0; a record with no field at all
\* gives stride zeros.
C5_MissingFieldsZero ==
    /\ (built.called /\ built.value # Undefined) => ~built.threw
    /\ BuiltStructArray =>
          \A r \in 1..Len(BuiltRecords) : \A k \in 1..Len(template.layout) :
              ~HasKey(BuiltRecords[r], template.layout[k].name) =>
                  \A j \in 1..template.layout[k].size :
                      built.array[(r - 1) * template.stride.n
                                    + template.layout[k].offset + j] = Num(0)
    /\ (BuiltStructArray /\ built.value = Arr(<<Obj(<<>>)>>))
          => built.array = [j \in 1..template.stride.n |-> Num(0)]
    /\ BuiltStruct =>
          \A k \in 1..Len(template.layout) :
              ~HasKey(built.value, template.layout[k].name) =>
                  \A j \in 1..template.layout[k].size :
                      built.array[template.layout[k].offset + j] = Num(0)

\* a build from a record that lacks one field and supplies another
C5_Witness ==
    /\ BuiltStructArray
    /\ \E r \in 1..Len(BuiltRecords) :
          /\ \E k \in 1..Len(template.layout) :
                ~HasKey(BuiltRecords[r], template.layout[k].name)
          /\ \E k \in 1..Len(template.layout) :
                /\ HasKey(BuiltRecords[r], template.layout[k].name)
                /\ built.array[(r - 1) * template.stride.n
                                 + template.layout[k].offset + 1] # Num(0)

\* C6: dataMap of a flat array whose length is no multiple of the layout's
\* stride fails with an error and returns no records.
C6_MisalignedRejected ==
    (/\ mapped.called
     /\ mapped.key = SlotName
     /\ isStructArray(template)
     /\ Len(mapped.flat) % template.stride.n # 0)
    => mapped.threw

\* some element the build reads from the record for a field of the layout
\* is a string that reads as no number
Uncoercible(record, layout) ==
    \E k \in 1..Len(layout) :
        LET v == Get(record, layout[k].name)
        IN  IF isArray(v)
            THEN \E j \in 1..Len(v.elems) : j <= layout[k].size /\ v.elems[j] = BadStr
            ELSE v = BadStr

\* C7: a build from a record with a value that cannot be coerced to a number
\* fails with an error, and no array with a non-number in it is produced.
C7_InvalidValueRejected ==
    /\ (/\ built.called
        /\ built.value # Undefined
        /\ isStructArray(template)
        /\ \E r \in 1..Len(built.value.elems) :
              Uncoercible(built.value.elems[r], template.layout))
          => (built.threw /\ built.error.name = "invalidFieldValue")
    /\ BuiltStructArray => \A j \in 1..Len(built.array) : built.array[j].t = "number"

\* the example record a buildBufferTypeByData call inferred from, if any
InferredFrom ==
    IF ~inferred.called THEN Obj(<<>>)
    ELSE IF inferred.value.t = "object" THEN inferred.value
    ELSE IF Len(inferred.value.elems) > 0 /\ inferred.value.elems[1].t = "object"
         THEN inferred.value.elems[1]
    ELSE Obj(<<>>)

LegacyFrom ==
    IF legacy.called /\ Len(legacy.value.elems) > 0
    THEN legacy.value.elems[1] ELSE Obj(<<>>)

\* what C8 says of one inference: example record, whether it threw, its
\* error and its layout
InferenceClosed(example, threw, error, layout) ==
    \A i \in 1..Len(example.entries) :
        LET e == example.entries[i]
            othersPlain == \A j \in 1..Len(example.entries) :
                              j # i => example.entries[j].v.t = "number"
            beforePlain == \A j \in 1..(i - 1) : example.entries[j].v.t = "number"
        IN  /\ (isArray(e.v) /\ Len(e.v.elems) = 3 /\ ~threw)
                  => layout[i].type = "vec3"
            /\ (isArray(e.v) /\ Len(e.v.elems) = 3 /\ othersPlain) => ~threw
            /\ (isArray(e.v) /\ Len(e.v.elems) \notin ElementCounts)
                  => /\ threw
                     /\ layout = <<>>
                     /\ beforePlain => error = UnsupportedLength(e.k, Len(e.v.elems))

\* C8: a field whose example is a length-3 sequence is typed vec3; a field
\* whose example length is no element count of the type table makes
\* inference throw an error naming the field and the length, and no layout
\* results.  In the current engine and in the legacy one.
C8_InferenceClosed ==
    /\ InferenceClosed(InferredFrom, inferred.threw, inferred.error, inferred.tem.layout)
    /\ InferenceClosed(LegacyFrom, legacy.threw, legacy.error, legacy.layout)

\* an example with a length-3 field and then a length-5 one: the error
\* names the second field and 5
C8_Witness ==
    /\ inferred.called
    /\ Len(InferredFrom.entries) = 2
    /\ isArray(InferredFrom.entries[1].v)
    /\ isArray(InferredFrom.entries[2].v)
    /\ Len(InferredFrom.entries[1].v.elems) = 3
    /\ Len(InferredFrom.entries[2].v.elems) = 5
    /\ inferred.threw
    /\ inferred.error = UnsupportedLength(InferredFrom.entries[2].k, 5)

\* the type of the table with a given element count
TypeOfCount(n) == CHOOSE t \in TypeSet : SpecElementCount(t) = n

\* C9: an example whose fields are numbers and sequences of a length in
\* {1, 2, 3, 4, 12, 16} is inferred, each sequence as the type of that
\* element count and each number as f32.
C9_InferredByCount ==
    (/\ inferred.called
     /\ Len(InferredFrom.entries) > 0
     /\ \A i \in 1..Len(InferredFrom.entries) :
           LET v == InferredFrom.entries[i].v
           IN  v.t = "number" \/ (isArray(v) /\ Len(v.elems) \in ElementCounts))
    => /\ ~inferred.threw
       /\ \A i \in 1..Len(InferredFrom.entries) :
             LET v == InferredFrom.entries[i].v
             IN  inferred.tem.layout[i].type =
                    IF isArray(v) THEN TypeOfCount(Len(v.elems)) ELSE "f32"

\* C10: planning from an empty field list is rejected: inference from an
\* example record with no fields throws, and no instance holds a struct
\* array template with zero fields.
C10_EmptyRejected ==
    /\ (/\ inferred.called
        /\ \/ inferred.value = Obj(<<>>)
           \/ inferred.value = Arr(<<Obj(<<>>)>>))
          => inferred.threw
    /\ ~(template.form = "object" /\ Len(template.layout) = 0)

---------------------------------------------------------------------------
(* C11..C20 *)

TypesOf(layout) == [i \in 1..Len(layout) |-> layout[i].type]
OffsetsOf(layout) == [i \in 1..Len(layout) |-> layout[i].offset]

\* what C11 says of one planned layout and, where the planner gives one, its
\* stride
StrideExamples(layout, hasStride, stride) ==
    /\ TypesOf(layout) = <<"f32", "vec3">>
          => /\ OffsetsOf(layout) = <<0, 4>>
             /\ hasStride => stride = Num(8)
    /\ TypesOf(layout) = <<"vec3", "f32">>
          => /\ OffsetsOf(layout) = <<0, 3>>
             /\ hasStride => stride = Num(4)
    /\ TypesOf(layout) = <<"f32">>
          => /\ OffsetsOf(layout) = <<0>>
             /\ hasStride => stride = Num(1)

\* C11: fields [f32, vec3] are planned at offsets 0 and 4 with stride 8,
\* fields [vec3, f32] at offsets 0 and 3 with stride 4, and a single f32
\* field with stride 1: in the instance's template, in the template planned
\* by example, in the length of the array built for a single struct, and in
\* the legacy engine.
C11_StrideByOrder ==
    /\ StrideExamples(template.layout, isStructArray(template), template.stride)
    /\ StrideExamples(inferred.tem.layout, inferred.tem.form = "object", inferred.tem.stride)
    /\ BuiltStruct => StrideExamples(template.layout, TRUE, Num(Len(built.array)))
    /\ StrideExamples(legacy.layout, legacy.called /\ ~legacy.threw, legacy.stride)

\* an explicit struct array template of fields [f32, vec3], planned
C11_Witness ==
    /\ isStructArray(template)
    /\ TypesOf(template.layout) = <<"f32", "vec3">>
    /\ template.stride = Num(8)

\* the fields of a layout keep the order and the types of the field list
\* they were planned from, the first at offset 0 and each later one at the
\* least multiple of its alignment at or past the end of the one before
MinimalInOrder(layout, names, types) ==
    /\ Len(layout) = Len(names)
    /\ \A i \in 1..Len(layout) :
          /\ layout[i].name = names[i]
          /\ layout[i].type = types[i]
          /\ layout[i].size = SpecElementCount(types[i])
          /\ LET end == IF i = 1 THEN 0 ELSE layout[i - 1].offset + layout[i - 1].size
                 a == SpecAlignment(types[i])
             IN  /\ layout[i].offset >= end
                 /\ layout[i].offset % a = 0
                 /\ \A m \in end..(layout[i].offset - 1) : m % a # 0

\* the types an example record's fields stand for, by element count
ExampleTypes(example) ==
    [i \in 1..Len(example.entries) |->
        LET v == example.entries[i].v
        IN  IF isArray(v) THEN TypeOfCount(Len(v.elems)) ELSE "f32"]

\* C20: every planned layout keeps its fields in declaration order, the
\* first at offset 0 and each later one at the smallest multiple of its
\* alignment that is at least the previous field's offset + size.  The
\* explicit field lists name their fields KeyNames[1], KeyNames[2], ... in
\* declaration order.
C20_MinimalPaddingInOrder ==
    /\ template # NoTemplate
          => MinimalInOrder(template.layout,
                            SubSeq(KeyNames, 1, Len(template.layout)),
                            TypesOf(template.layout))
    /\ (inferred.called /\ ~inferred.threw /\ inferred.hasKey)
          => MinimalInOrder(inferred.tem.layout, Keys(InferredFrom),
                            ExampleTypes(InferredFrom))
    /\ (legacy.called /\ ~legacy.threw)
          => MinimalInOrder(legacy.layout, Keys(LegacyFrom), ExampleTypes(LegacyFrom))

\* a template whose second field has the larger alignment and is padded
C20_Witness ==
    /\ isStruct(template)
    /\ Len(template.layout) = 2
    /\ SpecAlignment(template.layout[1].type) < SpecAlignment(template.layout[2].type)
    /\ template.layout[2].offset > template.layout[1].size

\* the places of the piece at in a text, in their order
PlacesOf(text, at) == SelectSeq([p \in 1..Len(text) |-> p], LAMBDA p : text[p] = at)

\* the k-th struct declaration of a text: its pieces from "struct " to the
\* piece that closes it
StructDeclaration(text, k) ==
    LET p == PlacesOf(text, "struct ")[k]
        q == CHOOSE q \in p..Len(text) :
                /\ text[q] \in {"};", " };"}
                /\ \A m \in p..(q - 1) : text[m] \notin {"};", " };"}
    IN  SubSeq(text, p, q)

\* the members a struct declaration declares, in its order: after the three
\* opening pieces every member is a name, a colon and a type, a comma
\* between two members
MembersOf(declaration) ==
    LET body == SubSeq(declaration, 4, Len(declaration) - 1)
    IN  [j \in 1..((Len(body) + 1) \div 4) |->
            [name |-> body[4 * j - 3], type |-> body[4 * j - 1]]]

\* the member a field is to be declared as
SpecMember(field) ==
    [name |-> field.name,
     type |-> IF field.type = "f32" THEN "f32" ELSE field.type \o "<f32>"]

\* the slots of a template that get a struct declaration, in key order
StructuredSlots(slots) ==
    SelectSeq(slots, LAMBDA s : isStruct(s.tem) \/ isStructArray(s.tem))

\* the elements of a field's value: a scalar counts as a list of one
ElementsOf(v) == IF isArray(v) THEN v.elems ELSE <<v>>

\* the buffer data holds, from the element base on, the record's values of
\* the declared members at the places of the layout's fields
WrittenAsDeclared(data, base, record, members, layout) ==
    \A j \in 1..Len(members) :
        \A e \in 1..layout[j].size :
            data[base + layout[j].offset + e]
                = ToNumber(ElementsOf(Get(record, members[j].name))[e])

\* C12: after initPipeline the text holds one struct declaration per struct
\* or struct-array slot, in key order, whose members are the fields of the
\* slot's layout in layout order, each with the field's name and the type
\* f32 or T<f32>; the buffer createBindGroup writes for the slot holds the
\* data's values of the declared members at the fields' places.  The legacy
\* text declares the members of the layout its buffer was built with.
C12_DeclarationMirrorsLayout ==
    /\ self.pipeline # 0 =>
          LET slots == StructuredSlots(self.template)
          IN  /\ Len(PlacesOf(self.code, "struct ")) = Len(slots)
              /\ \A k \in 1..Len(slots) :
                    MembersOf(StructDeclaration(self.code, k))
                        = [j \in 1..Len(slots[k].tem.layout) |->
                              SpecMember(slots[k].tem.layout[j])]
    /\ (self.pipeline # 0 /\ group.called /\ ~group.threw) =>
          \A i \in 1..Len(self.template) :
              LET tem == self.template[i].tem
                  k == Len(StructuredSlots(SubSeq(self.template, 1, i)))
                  members == MembersOf(StructDeclaration(self.code, k))
                  value == Get(group.data, self.template[i].name)
                  data == group.buffers[i].buffer.data
              IN  /\ isStruct(tem) => WrittenAsDeclared(data, 0, value, members, tem.layout)
                  /\ isStructArray(tem) =>
                        \A r \in 1..Len(value.elems) :
                            WrittenAsDeclared(data, (r - 1) * tem.stride.n, value.elems[r],
                                              members, tem.layout)
    /\ (old.run.called /\ ~old.run.threw) =>
          LET structured == SelectSeq(old.run.buffers, LAMBDA b : ~b.raw)
          IN  /\ Len(PlacesOf(old.run.code, "struct ")) = Len(structured)
              /\ \A k \in 1..Len(structured) :
                    MembersOf(StructDeclaration(old.run.code, k))
                        = [j \in 1..Len(structured[k].layout) |-> SpecMember(structured[k].layout[j])]

\* a bind group of a template with a struct slot and a struct-array slot,
\* after the pipeline was built
C12_Witness ==
    /\ self.pipeline # 0
    /\ group.called /\ ~group.threw
    /\ \E i, j \in 1..Len(self.template) :
          /\ isStruct(self.template[i].tem)
          /\ isStructArray(self.template[j].tem)
          /\ Len(group.buffers[j].buffer.data) > self.template[j].tem.stride.n

\* the decimal numeral of a binding index
Numeral(n) == <<"0", "1", "2", "3", "4", "5", "6", "7", "8", "9">>[n + 1]

\* the k-th binding declaration of a text: the index it declares and the
\* name it declares it for, the piece before the declaration's ": "
BindingDeclaration(text, k) ==
    LET p == PlacesOf(text, "@group(0) @binding(")[k]
        q == CHOOSE q \in p..Len(text) :
                /\ text[q] = ": "
                /\ \A m \in p..(q - 1) : text[m] # ": "
    IN  [index |-> text[p + 1], name |-> text[q - 1]]

\* C13: the slot at place i of the template's keys (ordinal i - 1) is
\* declared with @binding(i - 1) in the text, has the entry of binding
\* i - 1 in the bind group layout, and in every bind group createBindGroup
\* returns the entry of binding i - 1 holds the buffer made of that slot's
\* data.  The legacy createPipeline and buildCode do the same over the keys
\* of the data.
C13_BindingIsOrdinal ==
    /\ self.pipeline # 0 =>
          /\ Len(PlacesOf(self.code, "@group(0) @binding(")) = Len(self.template)
          /\ Len(self.groupLayout) = Len(self.template)
          /\ \A i \in 1..Len(self.template) :
                /\ BindingDeclaration(self.code, i)
                      = [index |-> Numeral(i - 1), name |-> self.template[i].name]
                /\ self.groupLayout[i].binding = i - 1
    /\ (group.called /\ ~group.threw) =>
          /\ Len(group.entries) = Len(self.template)
          /\ \A i \in 1..Len(self.template) :
                /\ group.entries[i].binding = i - 1
                /\ group.buffers[i].name = self.template[i].name
                /\ group.entries[i].buffer = group.buffers[i].buffer.id
                /\ group.buffers[i].buffer.data
                      = Float32ArrayOf(slotArray(self.template[i].tem,
                                                 Get(group.data, self.template[i].name)))
                /\ \A j \in 1..Len(self.template) :
                      group.entries[i].buffer = group.entries[j].buffer => i = j
    /\ (old.run.called /\ ~old.run.threw) =>
          /\ Len(old.run.bufferInfoList) = Len(old.run.data.entries)
          /\ Len(PlacesOf(old.run.code, "@group(0) @binding(")) = Len(old.run.data.entries)
          /\ \A i \in 1..Len(old.run.data.entries) :
                /\ BindingDeclaration(old.run.code, i)
                      = [index |-> Numeral(i - 1), name |-> old.run.data.entries[i].k]
                /\ old.run.bufferInfoList[i].name = old.run.data.entries[i].k
                /\ old.run.bufferInfoList[i].groupLayoutItem.binding = i - 1
                /\ old.run.bufferInfoList[i].groupItem.binding = i - 1
                /\ old.run.bufferInfoList[i].groupItem.buffer
                      = old.run.bufferInfoList[i].buffer.id

\* a bind group of a template whose keys are "output", "input" in this
\* order: "input" is bound at binding 1
C13_Witness ==
    /\ self.pipeline # 0
    /\ group.called /\ ~group.threw
    /\ Len(self.template) = 2
    /\ self.template[2].name = "input"
    /\ group.entries[2].binding = 1
    /\ BindingDeclaration(self.code, 2).name = "input"

\* the places of the bare slots of a template
RawSlots(slots) == {i \in 1..Len(slots) : ~isStruct(slots[i].tem) /\ ~isStructArray(slots[i].tem)}

\* a buffer is the copy of a sequence of numbers: as long, the same number at
\* every place, four bytes an element
CopyOf(buffer, numbers) ==
    /\ Len(buffer.data) = Len(numbers)
    /\ \A j \in 1..Len(numbers) : buffer.data[j] = numbers[j]
    /\ buffer.size = 4 * Len(numbers)

C15_ReuseCarriesOver ==
    (group.called /\ group.reuse) =>
        \A i \in 1..Len(self.template) :
            ~HasKey(group.data, self.template[i].name) =>
                /\ ~group.threw
                /\ group.entries[i].buffer = group.previous[i].buffer
                /\ \A j \in 1..Len(group.created) :
                      group.created[j].buffer # group.entries[i].buffer

\* a createBindGroup call ends in this step
BindGroupCalled == group' # group \/ gpu'.groups # gpu.groups

\* a computed call begins in this step
ComputedCalled == call.pc["computed"] = "idle" /\ run'.called /\ run' # run

\* C16: on an instance whose initPipeline has not completed createBindGroup
\* throws and creates no buffer, and computed throws and submits nothing;
\* getDevice throws whenever the module's adapter or device is unset, also
\* as the step of initPipeline.
C16_InitPrecedesUse ==
    [][/\ (self.pipeline = 0 /\ BindGroupCalled) =>
              /\ group'.called /\ group'.threw
              /\ group'.buffers = <<>> /\ group'.created = <<>>
              /\ gpu'.buffers = gpu.buffers
       /\ (self.pipeline = 0 /\ ComputedCalled) =>
              /\ run'.threw /\ ~run'.submitted /\ run'.staging = <<>>
              /\ call'.pc["computed"] = "idle"
       /\ (adapter = 0 \/ device = 0) =>
              /\ getDevice(adapter, device).status = "threw"
              /\ (call.pc["initPipeline"] = "getDevice" /\ call'.pc # call.pc) =>
                    /\ call'.pc["initPipeline"] = "idle"
                    /\ call'.last.name = "initPipeline"
                    /\ call'.last.status = "threw"
      ]_vars

\* createBindGroup and computed have thrown on an instance whose
\* initPipeline ended with the error of getDevice
C16_Witness ==
    /\ self.made /\ self.pipeline = 0
    /\ group.called /\ group.threw /\ group.error = NoDevice
    /\ run.called /\ run.threw /\ run.error = NoPipeline
    /\ call.last.name = "initPipeline" /\ call.last.error = NotInitialized
    /\ gpu.buffers = 0

\* C17: an init() call that has returned normally has left the module with
\* the device it obtained or found; without WebGPU, without an adapter and
\* without a device it has thrown.
C17_InitThrowsWithoutDevice ==
    (call.last.name = "init" /\ call.last.status = "returned") => call.last.dev # 0

\* the slot of a template with the name key
SlotOf(slots, key) == slots[CHOOSE i \in 1..Len(slots) : slots[i].name = key]

\* every buffer of the last bind group is built, and the last result
\* demapped was demapped, by the layout the template holds for the slot
BuiltAndDemappedByTemplate ==
    /\ (group.called /\ ~group.threw) =>
          \A i \in 1..Len(self.template) :
              group.buffers[i].buffer.data
                  = Float32ArrayOf(slotArray(improveTemplateOption(self.template[i].tem),
                                             Get(group.data, self.template[i].name)))
    /\ (run.mapped.called /\ ~run.mapped.threw) =>
          run.mapped.value
              = dataMap(run.mapped.flat,
                        improveTemplateOption(SlotOf(self.template, run.mapped.key).tem))

\* C18: once the instance is constructed no step changes its template: the
\* keys, and the field order, offsets, sizes and stride of every slot, stay
\* as the constructor planned them through initPipeline, createBindGroup,
\* computed and dataMap, and every buffer built and every result demapped
\* goes by that layout.
C18_TemplateFrozen ==
    /\ []BuiltAndDemappedByTemplate
    /\ [][self.made => (self'.made /\ self'.template = self.template)]_vars

\* a result of a struct-array slot was demapped after the pipeline was
\* built, a bind group created and a pass computed on it
C18_Witness ==
    /\ self.pipeline # 0
    /\ group.called /\ ~group.threw
    /\ run.returned
    /\ run.mapped.called /\ ~run.mapped.threw
    /\ isStructArray(SlotOf(self.template, run.mapped.key).tem)
    /\ Len(run.mapped.value.elems) = MaxRecords

\* the name is one of the names listed in synchronize
Listed(synchronize, name) ==
    /\ synchronize # Undefined
    /\ \E i \in 1..Len(synchronize.elems) : synchronize.elems[i] = name

\* results holds one flat result for every buffer whose name is listed, in
\* the order of the buffers, as long as the buffer's data, and no other
OnePerListed(results, buffers, synchronize) ==
    LET listed == SelectSeq(buffers, LAMBDA b : Listed(synchronize, b.name))
    IN  /\ Len(results) = Len(listed)
        /\ \A k \in 1..Len(listed) : Len(results[k]) = Len(listed[k].buffer.data)

---------------------------------------------------------------------------
(* C21..C30 *)

\* the places base + offset + j of every field hold the j-th element of the
\* record's value where that element is a number, and 0 where the value has
\* no such element
HoldsElements(array, base, record, layout) ==
    \A k \in 1..Len(layout) : \A j \in 0..(layout[k].size - 1) :
        LET e == Index(ElementsOf(Get(record, layout[k].name)), j)
        IN  /\ e.t = "number" => array[base + layout[k].offset + j + 1] = e
            /\ e = Undefined => array[base + layout[k].offset + j + 1] = Num(0)

\* no place of the array holds an element the record gives past a field's size
DropsSurplus(array, record, layout) ==
    \A k \in 1..Len(layout) :
        LET elems == ElementsOf(Get(record, layout[k].name))
        IN  \A j \in (layout[k].size + 1)..Len(elems) :
                \A p \in 1..Len(array) : array[p] # elems[j]

\* C21: for record i, field f and j < f.size the built array holds at
\* i * stride + f.offset + j the j-th element of the record's value for f (a
\* bare scalar is a sequence of one), or 0 when the value has no j-th
\* element; an element at index >= f.size is written nowhere.  This holds
\* for a struct array, a single struct and the legacy engine's buffer.
C21_ElementsAtOffsets ==
    /\ BuiltStructArray =>
          \A r \in 1..Len(BuiltRecords) :
              /\ HoldsElements(built.array, (r - 1) * template.stride.n,
                               BuiltRecords[r], template.layout)
              /\ DropsSurplus(built.array, BuiltRecords[r], template.layout)
    /\ BuiltStruct =>
          /\ HoldsElements(built.array, 0, built.value, template.layout)
          /\ DropsSurplus(built.array, built.value, template.layout)
    /\ (legacy.called /\ ~legacy.threw) =>
          \A r \in 1..Len(legacy.value.elems) :
              /\ HoldsElements(legacy.buffer, (r - 1) * legacy.stride.n,
                               legacy.value.elems[r], legacy.layout)
              /\ DropsSurplus(legacy.buffer, legacy.value.elems[r], legacy.layout)

\* a second record that gives a vector field one element too many, written
\* at its stride
C21_Witness ==
    /\ BuiltStructArray
    /\ Len(BuiltRecords) > 1
    /\ \E k \in 1..Len(template.layout) :
          LET v == Get(BuiltRecords[2], template.layout[k].name)
          IN  /\ isArray(v)
              /\ Len(v.elems) > template.layout[k].size
              /\ template.layout[k].size > 1
              /\ built.array[template.stride.n + template.layout[k].offset + 1] = v.elems[1]

\* place p (from 1) of the array lies in the range of a field of one of the
\* records
InFieldRange(p, layout, stride, records) ==
    \E r \in 0..(records - 1) : \E k \in 1..Len(layout) :
        /\ p - 1 >= r * stride + layout[k].offset
        /\ p - 1 < r * stride + layout[k].offset + layout[k].size

ZeroOutsideFields(array, layout, stride, records) ==
    \A p \in 1..Len(array) :
        ~InFieldRange(p, layout, stride, records) => array[p] = Num(0)

\* C22: in the array built for a struct or struct-array slot, and in the
\* legacy engine's buffer, every place that lies in no field's range
\* [i * stride + offset, i * stride + offset + size) holds 0.
C22_PaddingIsZero ==
    /\ BuiltStructArray =>
          ZeroOutsideFields(built.array, template.layout, template.stride.n,
                            Len(BuiltRecords))
    /\ BuiltStruct =>
          ZeroOutsideFields(built.array, template.layout, Len(built.array), 1)
    /\ (legacy.called /\ ~legacy.threw) =>
          ZeroOutsideFields(legacy.buffer, legacy.layout, legacy.stride.n,
                            Len(legacy.value.elems))

\* the layout [vec3, vec3] with stride 8, built for two full records: the
\* places 3 and 7 of every record lie in no field
C22_Witness ==
    /\ BuiltStructArray
    /\ TypesOf(template.layout) = <<"vec3", "vec3">>
    /\ template.stride.n = 8
    /\ Len(BuiltRecords) = 2
    /\ \A r \in 1..2 : Conforms(BuiltRecords[r], template.layout)
    /\ \A r \in 0..1 : \A p \in {3, 7} :
          ~InFieldRange(r * 8 + p + 1, template.layout, 8, 2)

\* the ranges [offset, offset + size) of distinct fields do not meet
RangesDisjoint(layout) ==
    \A i \in 1..Len(layout) : \A k \in 1..Len(layout) :
        i # k => \/ layout[i].offset + layout[i].size <= layout[k].offset
                 \/ layout[k].offset + layout[k].size <= layout[i].offset

\* every range lies inside [0, stride)
RangesWithin(layout, stride) ==
    \A i \in 1..Len(layout) :
        /\ layout[i].offset >= 0
        /\ layout[i].size > 0
        /\ layout[i].offset + layout[i].size <= stride

\* the places written for distinct fields, of one record or of two, differ
WritesApart(layout, stride, records) ==
    \A r \in 0..(records - 1) : \A s \in 0..(records - 1) :
        \A i \in 1..Len(layout) : \A k \in 1..Len(layout) :
            <<r, i>> # <<s, k>> =>
                {r * stride + layout[i].offset + j : j \in 0..(layout[i].size - 1)}
                    \cap {s * stride + layout[k].offset + j : j \in 0..(layout[k].size - 1)}
                  = {}

\* C26: in every planned layout (the instance's template, the layout
\* planned by example, the legacy engine's) the ranges [offset, offset + size)
\* of distinct fields are pairwise disjoint and lie inside [0, stride), the
\* stride of a single struct being the length of its array; so the places
\* written for distinct fields and records never meet.
C26_RangesDisjoint ==
    /\ RangesDisjoint(template.layout)
    /\ RangesDisjoint(inferred.tem.layout)
    /\ RangesDisjoint(legacy.layout)
    /\ isStructArray(template) => RangesWithin(template.layout, template.stride.n)
    /\ (inferred.tem.form = "object" /\ Len(inferred.tem.layout) > 0)
          => RangesWithin(inferred.tem.layout, inferred.tem.stride.n)
    /\ (legacy.called /\ ~legacy.threw) => RangesWithin(legacy.layout, legacy.stride.n)
    /\ BuiltStruct => RangesWithin(template.layout, Len(built.array))
    /\ BuiltStructArray =>
          WritesApart(template.layout, template.stride.n, Len(BuiltRecords))
    /\ (legacy.called /\ ~legacy.threw) =>
          WritesApart(legacy.layout, legacy.stride.n, Len(legacy.value.elems))

\* two records built with a layout whose second field starts after a gap
\* and is larger than its alignment
C26_Witness ==
    /\ BuiltStructArray
    /\ Len(BuiltRecords) > 1
    /\ Len(template.layout) > 1
    /\ template.layout[2].size > TYPE_ALIGN(template.layout[2].type)
    /\ template.layout[2].offset > template.layout[1].offset + template.layout[1].size

\* fromByData on the data the legacy engine was given: the template planned
\* by example and completed by the constructor
fromByData(value) == improveTemplateOption(buildBufferTypeByData(value).tem)

\* an example record of a type sequence: a number for f32, else a sequence of
\* the type's size
ExampleOfTypes(layout) ==
    Obj([i \in 1..Len(layout) |->
            [k |-> layout[i].name,
             v |-> IF layout[i].type = "f32"
                   THEN Num(1)
                   ELSE Arr(Ramp(1, TYPE_SIZE(layout[i].type)))]])

\* C27: for every non-empty array of records the legacy buildBuffer gives
\* the offsets, sizes, stride and flat buffer that the current engine gives
\* by buildStructTypeByData, improveTemplateOption and buildStructArray (and
\* fails where it fails); the explicit planner gives the offsets and stride
\* of the by-example planner for the same type sequence.
C27_EnginesAgree ==
    /\ (legacy.called /\ isArray(legacy.value) /\ Len(legacy.value.elems) > 0) =>
          /\ legacy.threw <=> buildBufferTypeByData(legacy.value).threw
          /\ ~legacy.threw =>
                /\ isStructArray(fromByData(legacy.value))
                /\ fromByData(legacy.value).layout = legacy.layout
                /\ fromByData(legacy.value).stride = legacy.stride
                /\ buildStructArray(legacy.value.elems, fromByData(legacy.value))
                      = legacy.buffer
    /\ isStructArray(template) =>
          /\ buildStructTypeByData(ExampleOfTypes(template.layout)).layout = template.layout
          /\ buildStructTypeByData(ExampleOfTypes(template.layout)).stride = template.stride

\* every key of the synchronize list is the name of a slot of the template
NamesSlots(synchronize, slots) ==
    /\ isArray(synchronize)
    /\ \A i \in 1..Len(synchronize.elems) :
          \E k \in 1..Len(slots) : slots[k].name = synchronize.elems[i]

\* C28: the static computed with map: true, given a synchronize list of
\* slot names in any order, returns for every result of computed the value
\* dataMap gives with the template of the slot whose buffer the result was
\* read from.
C28_ResultsMappedBySlot ==
    (/\ run.static.called
     /\ run.static.map
     /\ run.returned
     /\ run.static.returned \/ run.static.threw
     /\ NamesSlots(run.static.synchronize, self.template))
    => /\ run.static.returned
       /\ Len(run.static.value.elems) = Len(run.results)
       /\ \A i \in 1..Len(run.results) :
             run.static.value.elems[i]
                 = dataMap(run.results[i], SlotOf(self.template, run.staging[i].name).tem)

\* the keys of data whose value is not an array without elements
RECURSIVE FilledKeys(_, _)
FilledKeys(data, i) ==
    IF i > Len(data.entries)
    THEN <<>>
    ELSE (IF data.entries[i].v = Arr(<<>>) THEN <<>> ELSE <<data.entries[i].k>>)
         \o FilledKeys(data, i + 1)

TemplateKeys == [i \in 1..Len(self.template) |-> self.template[i].name]

\* C25 as stated: the template buildBufferTypeByData(data) returns, with
\* which fromByData constructs the instance, has exactly the keys of data,
\* in the order of data, whenever the values of data are numeric arrays,
\* arrays of records or single records, an empty array included; so every
\* slot of data has a binding in the shader text.
C25_TemplateKeysAreDataKeys ==
    (run.static.called /\ self.made) =>
        /\ TemplateKeys = Keys(run.static.data)
        /\ self.pipeline # 0 =>
              Len(PlacesOf(self.code, "@group(0) @binding(")) = Len(run.static.data.entries)

\* C25, corrected: the template has exactly the keys of data whose value is
\* not an empty array, in the order of data, and the shader text has one
\* binding for each of them; a slot whose value is an empty array has no key
\* in the template and no binding.
C25_TemplateKeysAreFilledKeys ==
    (run.static.called /\ self.made) =>
        /\ TemplateKeys = FilledKeys(run.static.data, 1)
        /\ self.pipeline # 0 =>
              Len(PlacesOf(self.code, "@group(0) @binding("))
                  = Len(FilledKeys(run.static.data, 1))

\* data of two slots, the second an empty array: the pipeline is built with
\* the one binding of the first
C25_Witness ==
    /\ run.static.called
    /\ self.pipeline # 0
    /\ Len(run.static.data.entries) = 2
    /\ run.static.data.entries[2].v = Arr(<<>>)
    /\ TemplateKeys = <<run.static.data.entries[1].k>>
    /\ Len(PlacesOf(self.code, "@group(0) @binding(")) = 1

\* every place of the list ps is before every place of the list qs
AllBefore(ps, qs) ==
    \A i \in 1..Len(ps) : \A k \in 1..Len(qs) : ps[i] < qs[k]

\* the text has its struct declarations, then its binding declarations,
\* then the snippets once each in their order, then the one wrapper, which
\* ends with the body and the closing piece
AssembledInOrder(text, snippets, body) ==
    LET structs == PlacesOf(text, "struct ")
        bindings == PlacesOf(text, "@group(0) @binding(")
        wrapper == PlacesOf(text, "@compute @workgroup_size(")
        prelude == [i \in 1..Len(snippets) |-> PlacesOf(text, snippets[i])]
    IN  /\ Len(wrapper) = 1
        /\ AllBefore(structs, bindings)
        /\ AllBefore(structs, wrapper)
        /\ AllBefore(bindings, wrapper)
        /\ \A i \in 1..Len(snippets) :
              /\ Len(prelude[i]) = 1
              /\ AllBefore(bindings, prelude[i])
              /\ AllBefore(structs, prelude[i])
              /\ AllBefore(prelude[i], wrapper)
              /\ i > 1 => AllBefore(prelude[i - 1], prelude[i])
        /\ text[Len(text)] = " }"
        /\ text[Len(text) - 1] = body
        /\ wrapper[1] < Len(text) - 1

\* the snippets and the body an option names
SnippetsOf(option) == IF option.beforeCodes = Undefined THEN <<>> ELSE option.beforeCodes.elems
BodyOf(option) == IF option.code = Undefined THEN "" ELSE option.code.s

\* C23: the complete shader text is assembled in the order: all struct
\* declarations, all binding declarations, the snippets of beforeCodes in the
\* order given, the main wrapper with the caller's body inside; in
\* initPipeline and in the legacy buildCode.
C23_AssemblyOrder ==
    /\ self.pipeline # 0 =>
          AssembledInOrder(self.code, SnippetsOf(self.option), BodyOf(self.option))
    /\ (old.run.called /\ ~old.run.threw) =>
          AssembledInOrder(old.run.code, SnippetsOf(old.run.option), BodyOf(old.run.option))

\* a pipeline built for a struct slot and another slot, with two snippets
\* and a body
C23_Witness ==
    /\ self.pipeline # 0
    /\ Len(self.template) > 1
    /\ Len(PlacesOf(self.code, "struct ")) > 0
    /\ Len(SnippetsOf(self.option)) = 2
    /\ BodyOf(self.option) # ""

\* the slot name with its first letter in upper case
SpecCapital(name) ==
    CASE name = "input" -> "Input"
      [] name = "output" -> "Output"
      [] name = "extra" -> "Extra"
      [] name = "more" -> "More"

\* the type the k-th binding declaration of a text declares: the piece after
\* the declaration's ": "
BindingType(text, k) ==
    LET p == PlacesOf(text, "@group(0) @binding(")[k]
        q == CHOOSE q \in p..Len(text) :
                /\ text[q] = ": "
                /\ \A m \in p..(q - 1) : text[m] # ": "
    IN  text[q + 1]

\* the name the k-th struct declaration of a text declares
StructName(text, k) == text[PlacesOf(text, "struct ")[k] + 1]

\* C24: the binding of a bare numeric slot declares array<f32>, that of a
\* single struct <Name>Struct and that of a struct array array<<Name>Struct>,
\* <Name> being the slot name with its first letter in upper case; the
\* struct declarations are those of the struct and struct-array slots, one
\* each, named <Name>Struct.  The legacy buildCode, which has no single
\* struct, declares array<f32> or array<<Name>Struct>.
C24_BindingTypeByShape ==
    /\ self.pipeline # 0 =>
          /\ Len(PlacesOf(self.code, "@group(0) @binding(")) = Len(self.template)
          /\ \A i \in 1..Len(self.template) :
                BindingType(self.code, i)
                    = IF isStruct(self.template[i].tem)
                      THEN SpecCapital(self.template[i].name) \o "Struct"
                      ELSE IF isStructArray(self.template[i].tem)
                      THEN "array<" \o SpecCapital(self.template[i].name) \o "Struct>"
                      ELSE "array<f32>"
          /\ Len(PlacesOf(self.code, "struct ")) = Len(StructuredSlots(self.template))
          /\ \A k \in 1..Len(StructuredSlots(self.template)) :
                StructName(self.code, k)
                    = SpecCapital(StructuredSlots(self.template)[k].name) \o "Struct"
    /\ (old.run.called /\ ~old.run.threw) =>
          /\ Len(PlacesOf(old.run.code, "@group(0) @binding(")) = Len(old.run.buffers)
          /\ \A i \in 1..Len(old.run.buffers) :
                BindingType(old.run.code, i)
                    = IF old.run.buffers[i].raw
                      THEN "array<f32>"
                      ELSE "array<" \o SpecCapital(old.run.buffers[i].name) \o "Struct>"
          /\ Len(PlacesOf(old.run.code, "struct "))
                = Len(SelectSeq(old.run.buffers, LAMBDA b : ~b.raw))
          /\ \A k \in 1..Len(SelectSeq(old.run.buffers, LAMBDA b : ~b.raw)) :
                StructName(old.run.code, k)
                    = SpecCapital(SelectSeq(old.run.buffers, LAMBDA b : ~b.raw)[k].name)
                          \o "Struct"

\* a pipeline built for a single struct and a struct array side by side
C24_Witness ==
    /\ self.pipeline # 0
    /\ \E i \in 1..Len(self.template) : isStruct(self.template[i].tem)
    /\ \E i \in 1..Len(self.template) : isStructArray(self.template[i].tem)
    /\ Len(PlacesOf(self.code, "struct ")) = 2

\* every buffer of the group was created on the device dev
BuffersOn(buffers, dev) ==
    \A i \in 1..Len(buffers) : buffers[i].buffer.device = dev

\* C29: after destroy() no operation of an instance creates a buffer or
\* submits work on the destroyed device: a createBindGroup call throws or
\* creates its buffers on a device that is not destroyed, a computed call
\* throws or submits to a device that is not destroyed, and the bind group
\* it dispatches holds buffers of the device its pipeline was created on.
C29_NoUseAfterDestroy ==
    [][/\ BindGroupCalled =>
              \/ group'.threw
              \/ self.device \notin gpu.destroyed /\ BuffersOn(group'.buffers, self.device)
       /\ ComputedCalled =>
              \/ run'.threw
              \/ /\ self.device \notin gpu.destroyed
                 /\ BuffersOn(group.buffers, self.pipeline)
      ]_vars

\* C30: from the uninitialized module, however the init() calls of the
\* caller and of initPipeline interleave, one device is requested and every
\* caller goes on with it: while no device is destroyed the adapter has
\* created at most one, and an instance whose initPipeline has returned holds
\* the module's device.
C30_OneDeviceForAll ==
    gpu.destroyed = {} =>
        /\ gpu.devices <= 1
        /\ (self.device # 0 /\ device # 0) => self.device = device
        /\ (call.last.status = "returned" /\ device # 0) => call.last.dev = device

====
